---------------------------- MODULE Spec2Model ----------------------------
(***************************************************************************)
(* A model of the file-drop mailbox between a sandboxed agent and the      *)
(* privileged host of nanoclaw's Discord integration:                      *)
(*   - host.js   handleDiscordIpc, writeResult, getMappingForChannel,      *)
(*               loadChannelMappings, reloadChannelMappings,               *)
(*               initDiscordClient, sendToChannel                          *)
(*   - agent.ts  writeIpcFile, waitForResult, the discord_send tool        *)
(* The host and the agent are different processes: a file operation of one *)
(* is a step the other can interleave with.                                *)
(***************************************************************************)
EXTENDS Integers, Sequences, FiniteSets, TLC

(***************************************************************************)
(* Values.  A missing or empty string field is NoValue (both are falsy in  *)
(* the handler's `!x` tests).  A type is the sequence of its parts, so     *)
(* that startsWith is computed on it; the missing type is the empty one.   *)
(***************************************************************************)
NoValue == ""

\* Group folders; which of them is the main group is the caller's isMain flag.
Groups == {"g", "h"}

Channels == {"X", "Y"}

Texts == {"hi"}

\* A requestId stands for `discord-send-${Date.now()}-${random}`: the i-th
\* one generated is i; a missing requestId is NoRequestId.
MaxRequests == 2

RequestIds == 1..MaxRequests

NoRequestId == 0

DiscordPrefix == "discord_"

DiscordSend == <<"discord_", "send">>

Types == {<<>>, DiscordSend, <<"discord_", "react">>, <<"x_", "post">>}

\* String.prototype.startsWith on a type; `type?.` makes a missing type falsy.
StartsWith(type, prefix) == Len(type) >= 1 /\ type[1] = prefix

\* The task documents a caller can drop: the envelope of a discord request.
Requests ==
    [type : Types, requestId : RequestIds \cup {NoRequestId},
     channelId : Channels \cup {NoValue}, text : Texts \cup {NoValue},
     groupFolder : Groups, isMain : BOOLEAN]

NoRequest ==
    [type |-> <<>>, requestId |-> NoRequestId, channelId |-> NoValue,
     text |-> NoValue, groupFolder |-> "g", isMain |-> FALSE]

(***************************************************************************)
(* Results written by the host.                                            *)
(***************************************************************************)
NoResult == [success |-> FALSE, message |-> ""]

MissingFieldsResult == [success |-> FALSE, message |-> "Missing channelId or text"]

UnmappedResult == [success |-> FALSE, message |-> "Channel not mapped to any group"]

UnauthorizedResult ==
    [success |-> FALSE, message |-> "Not authorized to send to this channel"]

SentResult == [success |-> TRUE, message |-> "Message sent"]

SendFailedResult == [success |-> FALSE, message |-> "Failed to send message"]

SendResult(success) == IF success THEN SentResult ELSE SendFailedResult

(***************************************************************************)
(* data/discord-channels.json as an operator may have left it: missing,    *)
(* unparsable, or holding a mapping list (a channel may be listed twice).  *)
(***************************************************************************)
Mapping(c, g, m) == [discordChannelId |-> c, nanoClawGroup |-> g, isMain |-> m]

ChannelFiles ==
    { [exists |-> FALSE, parses |-> FALSE, mappings |-> <<>>],
      [exists |-> TRUE, parses |-> FALSE, mappings |-> <<>>],
      [exists |-> TRUE, parses |-> TRUE, mappings |-> <<Mapping("X", "g", FALSE)>>],
      [exists |-> TRUE, parses |-> TRUE,
       mappings |-> <<Mapping("X", "h", FALSE), Mapping("X", "g", FALSE)>>],
      [exists |-> TRUE, parses |-> TRUE,
       mappings |-> <<Mapping("X", "g", TRUE), Mapping("Y", "h", FALSE)>>] }

\* A slip: the list is cut short after its first mapping.
loadChannelMappings_Partial(file) ==
    IF ~file.exists \/ ~file.parses \/ file.mappings = <<>> THEN <<>>
    ELSE <<file.mappings[1]>>

loadChannelMappings(file) ==
    IF ~file.exists THEN <<>>
    ELSE IF ~file.parses THEN <<>>
    ELSE file.mappings

\* The lists a load can produce.
LoadableMappings == {loadChannelMappings(file) : file \in ChannelFiles}

(***************************************************************************)
(* Files.  A file is absent, or holds a document that is complete or not   *)
(* (opened and truncated, its bytes not yet all written).                  *)
(***************************************************************************)
ResultFiles == Groups \X RequestIds

NoFile == [present |-> FALSE, complete |-> FALSE, result |-> NoResult]

OpenedFile == [present |-> TRUE, complete |-> FALSE, result |-> NoResult]

WrittenFile(result) == [present |-> TRUE, complete |-> TRUE, result |-> result]

(***************************************************************************)
(* agent.ts.  A file name is the sequence of its parts: the i-th generated *)
(* `${Date.now()}-${random}` followed by its extensions.                   *)
(***************************************************************************)
FilePath(i) == <<i, ".json">>

\* A slip: the document is written under its final name.
TempPathOf_Same(filepath) == filepath

TempPathOf(filepath) == filepath \o <<".tmp">>

TaskNames == {FilePath(i) : i \in RequestIds} \cup
             {FilePath(i) \o <<".tmp">> : i \in RequestIds}

\* String.prototype.endsWith on a file name.
EndsWith(name, suffix) == Len(name) >= 1 /\ name[Len(name)] = suffix

NoTask == [present |-> FALSE, complete |-> FALSE, doc |-> NoRequest]

OpenedTask == [present |-> TRUE, complete |-> FALSE, doc |-> NoRequest]

WrittenTask(doc) == [present |-> TRUE, complete |-> TRUE, doc |-> doc]

PollInterval == 500

\* waitForResult's maxWait: the default 30000 ms, scaled down.
DefaultMaxWait == 1500

TimedOutResult == [success |-> FALSE, message |-> "Request timed out"]

\* `Failed to read result: ${err}`, whatever the error was.
ReadFailedResult == [success |-> FALSE, message |-> "Failed to read result"]

InvalidChannelResult == [success |-> FALSE, message |-> "Invalid channel ID format"]

\* /^\d{17,20}$/: the channels are snowflakes, a channel name is not.
IsSnowflake(channel_id) == channel_id \in Channels

\* The arguments the tool is called with: a mapped or unmapped channel (as
\* the list is reloaded) and a channel name that is no snowflake.
ToolChannelArgs == {"X", "general"}

ToolTextArgs == Texts

Agents == {"t1"}

\* SkillToolsContext of the agent's container.
AgentContext(a) == [groupFolder |-> "g", isMain |-> FALSE]

IdleTool ==
    [pc |-> "idle", requestId |-> NoRequestId, channelId |-> NoValue,
     text |-> NoValue, elapsed |-> 0, buf |-> NoResult, ret |-> NoResult]

HandlerSlots == {"a"}

IdleCall ==
    [pc |-> "idle", data |-> NoRequest, sourceGroup |-> "g", isMain |-> FALSE,
     result |-> NoResult, ret |-> "pending", sends |-> 0, writes |-> 0,
     looked |-> FALSE, overwrote |-> FALSE]

(***************************************************************************)
(* local-agent.ts: the tool loop of runLocalAgent.                         *)
(***************************************************************************)
MAX_TOOL_ITERATIONS == 10

MAX_SAME_TOOL == 3

MAX_SEND_MESSAGES == 2

MAX_HISTORY == 20

Min(a, b) == IF a < b THEN a ELSE b

Max(a, b) == IF a > b THEN a ELSE b

\* A slip: slice copies the whole array.
Slice_Whole(array, begin) == array

\* Array.prototype.slice(begin): a negative begin counts from the end.
Slice(array, begin) ==
    LET len == Len(array)
        k == IF begin < 0 THEN Max(len + begin, 0) ELSE Min(begin, len)
    IN SubSeq(array, k + 1, len)

\* A slip: the oldest messages are kept instead of the newest.
RecentHistory_Oldest(stored) == SubSeq(stored, 1, Min(Len(stored), MAX_HISTORY))

\* session.messages.slice(-MAX_HISTORY)
RecentHistory(stored) == Slice(stored, 0 - MAX_HISTORY)

\* The tool names a completion asks for: tools of getToolDefinitions, and a
\* name that is no tool but a member every object inherits.
ToolNames == {"send_message", "read_file", "write_file", "ebay_search",
              "constructor"}

\* Object.prototype: what toolCallCounts[name] yields before name is set.
ObjectPrototypeKeys == {"constructor"}

\* The values a property of toolCallCounts holds: undefined, a number
\* (positive), an inherited member of Object.prototype, or a string that is
\* no number.
UndefinedCount == 0

InheritedMember == -1

TextCount == -2

\* toolCallCounts[toolName]
PropertyOf(toolCallCounts, toolName) ==
    IF toolCallCounts[toolName] # UndefinedCount THEN toolCallCounts[toolName]
    ELSE IF toolName \in ObjectPrototypeKeys THEN InheritedMember
    ELSE UndefinedCount

\* (value || 0) + 1: a number is incremented, and an object or a string is
\* concatenated with "1".
Incremented(value) ==
    IF value = UndefinedCount THEN 1
    ELSE IF value > 0 THEN value + 1
    ELSE TextCount

\* A slip: >= for >.
Exceeds_Inclusive(value, limit) == value > 0 /\ value >= limit

\* value > limit: a string that is no number compares as NaN, never greater.
Exceeds(value, limit) == value > 0 /\ value > limit

\* sendMessageLimit
LimitOf(toolName) ==
    IF toolName = "send_message" THEN MAX_SEND_MESSAGES ELSE MAX_SAME_TOOL

\* A slip: <= for <.
WithinBudget_Inclusive(iterations) == iterations <= MAX_TOOL_ITERATIONS

\* while (iterations < MAX_TOOL_ITERATIONS)
WithinBudget(iterations) == iterations < MAX_TOOL_ITERATIONS

\* ChatMessage.  A stored message is known by its place in the history, a
\* tool message by the call it answers: <<iteration, index in the message>>.
SystemMessage == [role |-> "system"]

StoredMessage(k) ==
    [role |-> IF k % 2 = 1 THEN "user" ELSE "assistant", seq |-> k]

UserMessage(prompt) == [role |-> "user", content |-> prompt]

\* Of the tool calls of an assistant message the ids are kept, in order.
AssistantMessage(content, tool_calls) ==
    [role |-> "assistant", content |-> content,
     tool_calls |-> [k \in DOMAIN tool_calls |-> tool_calls[k].id]]

\* A slip: the id of the call is left out.
ToolMessage_NoId(content, tool_call_id) ==
    [role |-> "tool", content |-> content, tool_call_id |-> <<>>]

ToolMessage(content, tool_call_id) ==
    [role |-> "tool", content |-> content, tool_call_id |-> tool_call_id]

\* A string of a tool message: what it is, how long the string it is made
\* from is, how many of its first characters are kept, and whether the
\* marker '\n... (truncated)' follows them.
Content(text, length) ==
    [text |-> text, length |-> length, kept |-> length, marker |-> FALSE]

\* `Tool "${toolName}" has been called too many times. Stop calling ...`
TooManyTimes == [text |-> "has been called too many times"]

\* A tool call of a completion.  arguments: whether the string parses as
\* JSON; of the tool it names: whether executeTool throws, and how long the
\* string it returns, or the message of what it throws, is.
ToolCall(name, arguments, throws, length) ==
    [id |-> <<>>, name |-> name, arguments |-> arguments, throws |-> throws,
     length |-> length]

\* The ids of the calls of one response: the completion gives each its own.
WithIds(tool_calls, iteration) ==
    [k \in DOMAIN tool_calls |-> [tool_calls[k] EXCEPT !.id = <<iteration, k>>]]

\* A call with arguments that parse and a short result.
PlainCall(name) == ToolCall(name, TRUE, FALSE, 6)

Calling(names) == [k \in DOMAIN names |-> PlainCall(names[k])]

\* try { args = JSON.parse(toolCall.function.arguments) } catch { args = {} }
ParsedArguments(toolCall) == IF toolCall.arguments THEN "parsed" ELSE "empty"

\* A slip: the error of a tool is passed on as its result.
ToolResult_Bare(toolCall) == Content("result", toolCall.length)

\* result = await executeTool(...), or `Tool error: ${err.message}`.
ToolResult(toolCall) ==
    IF toolCall.throws THEN Content("Tool error", 12 + toolCall.length)
    ELSE Content("result", toolCall.length)

MAX_TOOL_RESULT_CHARS == 1200

\* The length of '\n... (truncated)'.
MarkerLength == 16

\* A slip: >= for >.
TooLong_Inclusive(result) == result.length >= MAX_TOOL_RESULT_CHARS

\* result.length > MAX_TOOL_RESULT_CHARS
TooLong(result) == result.length > MAX_TOOL_RESULT_CHARS

\* result.slice(0, MAX_TOOL_RESULT_CHARS) + '\n... (truncated)'
Truncated(result) ==
    IF TooLong(result)
    THEN [result EXCEPT !.kept = Min(MAX_TOOL_RESULT_CHARS, result.length),
                        !.marker = TRUE]
    ELSE result

\* content.length
ContentLength(content) ==
    content.kept + (IF content.marker THEN MarkerLength ELSE 0)

Prompts == {"p"}

\* A stored session of N messages, in stored order.
StoredSession(N) == [k \in 1..N |-> StoredMessage(k)]

StoredLengths == {0, 1, MAX_HISTORY - 1, MAX_HISTORY, MAX_HISTORY + 1}

\* {dataDir}/sessions-local/{groupFolder}/{sessionId}.json
NoSession == [present |-> FALSE, messages |-> <<>>]

SessionFile(messages) == [present |-> TRUE, messages |-> messages]

\* How many invocations of runLocalAgent a behaviour follows.
MaxRuns == 2

\* input.sessionId: undefined, the id of the stored session, or an id that
\* loadSession generated (`local-${Date.now()}-${random}`).
NoSessionId == <<>>

GivenSessionId == <<"s1">>

FreshSessionId(n) == <<"local", n>>

SessionIds == {GivenSessionId} \cup {FreshSessionId(n) : n \in 1..(MaxRuns + 1)}

\* What callOllama comes back with: it throws, or the response has no
\* choices, or the first choice is text or asks for tool calls.
ThrowResponse == [kind |-> "throw", content |-> "", tool_calls |-> <<>>]

NoChoicesResponse == [kind |-> "empty", content |-> "", tool_calls |-> <<>>]

TextResponse(content) ==
    [kind |-> "text", content |-> content, tool_calls |-> <<>>]

ToolCallsResponse(tool_calls) ==
    [kind |-> "tools", content |-> "", tool_calls |-> tool_calls]

Contents == {"", "ok"}

\* One call of each name, and messages with several calls: the same name
\* over and over, and a call after what will be a blocked one.
ToolCallLists ==
    {Calling(<<name>>) : name \in ToolNames} \cup
    {Calling(<<"read_file", "read_file", "read_file", "read_file">>),
     Calling(<<"send_message", "send_message", "send_message", "write_file">>)}

NullResult == "null"

GuardrailFallback == "Sorry, I had trouble processing that. Please try again."

BudgetFallback == "I reached my processing limit. Please try again."

ZeroCounts == [name \in ToolNames |-> 0]

IdleRun ==
    [pc |-> "idle", n |-> 0, prompt |-> "", sessionId |-> NoSessionId,
     loaded |-> <<>>, first |-> <<>>, messages |-> <<>>, iterations |-> 0,
     toolCallCounts |-> [name \in ToolNames |-> UndefinedCount],
     loopAborted |-> FALSE, exit |-> "", status |-> "", result |-> NullResult,
     attempts |-> ZeroCounts, executed |-> ZeroCounts, blocked |-> <<>>,
     invoked |-> <<>>, response |-> "",
     toolEnabledCalls |-> 0, toolResponses |-> 0, finalCalls |-> 0,
     finalAnswers |-> 0, saves |-> 0]

(***************************************************************************)
(* local-agent.ts: the file tools.                                         *)
(***************************************************************************)
MAX_FILE_SIZE == 102400

\* A string argument is the sequence of its characters; an argument can be
\* missing (undefined) or of another type.
StringArg(chars) == [type |-> "string", chars |-> chars]

UndefinedArg == [type |-> "undefined", chars |-> <<>>]

NumberArg == [type |-> "number", chars |-> <<>>]

\* The relative paths a tool is called with: none, plain names, names under
\* a directory, with '.', with '..' as a segment and inside a name, and
\* absolute ones.
PathStrings ==
    {<<>>,
     <<"a">>,
     <<"a", "/">>,
     <<"a", "/", "b">>,
     <<".">>,
     <<".", "/", "a">>,
     <<"/">>,
     <<"/", "a">>,
     <<"/", "g", "r", "o", "u", "p", "s", "/", "g", "/", "a">>,
     <<".", ".">>,
     <<".", ".", "/", "h", "/", "a">>,
     <<"a", "/", ".", ".", "/", "b">>,
     <<"a", ".", ".", "b">>}

PathArgs == {StringArg(chars) : chars \in PathStrings} \cup {UndefinedArg, NumberArg}

\* A content is known by how many of its characters take one byte in UTF-8
\* and how many take two.
ContentOf(ascii, wide) == [type |-> "string", ascii |-> ascii, wide |-> wide]

UndefinedContent == [type |-> "undefined", ascii |-> 0, wide |-> 0]

ContentArgs ==
    {UndefinedContent,
     ContentOf(0, 0),
     ContentOf(1, 0),
     ContentOf(MAX_FILE_SIZE, 0),
     ContentOf(MAX_FILE_SIZE + 1, 0),
     ContentOf(MAX_FILE_SIZE - 2, 1),
     ContentOf(MAX_FILE_SIZE - 1, 1)}

\* String(args.content ?? '')
StringOf(content) ==
    IF content.type = "undefined" THEN ContentOf(0, 0) ELSE content

\* content.length
LengthOf(content) == content.ascii + content.wide

\* A slip: the characters are counted, not the bytes.
ByteLength_Units(content) == content.ascii + content.wide

\* Buffer.byteLength(content, 'utf-8')
ByteLength(content) == content.ascii + 2 * content.wide

\* path.isAbsolute (POSIX)
IsAbsolute(chars) == Len(chars) >= 1 /\ chars[1] = "/"

\* A slip: the test for '..' is gone.
HasDotDot_Ignored(chars) == FALSE

\* relativePath.includes('..')
HasDotDot(chars) ==
    \E i \in 1..(Len(chars) - 1) : chars[i] = "." /\ chars[i + 1] = "."

\* The segments of a path string: what lies between its '/'.
RECURSIVE SplitPath(_, _, _)
SplitPath(chars, i, segment) ==
    IF i > Len(chars) THEN <<segment>>
    ELSE IF chars[i] = "/"
    THEN <<segment>> \o SplitPath(chars, i + 1, <<>>)
    ELSE SplitPath(chars, i + 1, Append(segment, chars[i]))

\* path.resolve's normalisation: empty segments and '.' are dropped, '..'
\* removes the segment before it.
RECURSIVE Normalize(_, _, _)
Normalize(base, segments, i) ==
    IF i > Len(segments) THEN base
    ELSE IF segments[i] \in {<<>>, <<".">>}
    THEN Normalize(base, segments, i + 1)
    ELSE IF segments[i] = <<".", ".">>
    THEN Normalize(IF base = <<>> THEN <<>> ELSE SubSeq(base, 1, Len(base) - 1),
                   segments, i + 1)
    ELSE Normalize(Append(base, segments[i]), segments, i + 1)

\* An absolute path is the sequence of its segments from the root.
GROUPS_DIR == << <<"g", "r", "o", "u", "p", "s">> >>

\* path.join(GROUPS_DIR, groupFolder)
GroupDirOf(groupFolder) == Append(GROUPS_DIR, <<groupFolder>>)

\* path.resolve(groupDir, relativePath)
Resolve(groupDir, chars) ==
    Normalize(IF IsAbsolute(chars) THEN <<>> ELSE groupDir,
              SplitPath(chars, 1, <<>>), 1)

\* resolved.startsWith(groupDir + path.sep) || resolved === groupDir
WithinDir(resolved, groupDir) ==
    /\ Len(resolved) >= Len(groupDir)
    /\ SubSeq(resolved, 1, Len(groupDir)) = groupDir

\* path.dirname of an absolute path
Dirname(resolved) ==
    IF resolved = <<>> THEN <<>> ELSE SubSeq(resolved, 1, Len(resolved) - 1)

Rejected(error) == [ok |-> FALSE, error |-> error, resolved |-> <<>>]

Accepted(resolved) == [ok |-> TRUE, error |-> "", resolved |-> resolved]

validateGroupPath(relativePath, groupFolder) ==
    IF relativePath.type # "string" \/ relativePath.chars = <<>>
    THEN Rejected("Path is required")
    ELSE IF IsAbsolute(relativePath.chars)
    THEN Rejected("Absolute paths are not allowed")
    ELSE IF HasDotDot(relativePath.chars)
    THEN Rejected("Path traversal (..) is not allowed")
    ELSE LET groupDir == GroupDirOf(groupFolder)
             resolved == Resolve(groupDir, relativePath.chars)
         IN IF ~WithinDir(resolved, groupDir)
            THEN Rejected("Path resolves outside the group directory")
            ELSE Accepted(resolved)

\* What executeTool returns: a text, with the number it is built around.
Returns(text, n) == [text |-> text, n |-> n]

\* The directories, and the files with their length in characters.
EmptyDisk == [dirs |-> {}, files |-> {}]

\* The groups' directories are there, as registration made them.
GroupDisk ==
    [dirs |-> {<<>>, GROUPS_DIR} \cup {GroupDirOf(g) : g \in Groups},
     files |-> {}]

IsFile(d, path) == \E f \in d.files : f[1] = path

\* The directories a path runs through, itself included.
Ancestors(path) == {SubSeq(path, 1, n) : n \in 0..Len(path)}

\* fs.mkdirSync(dir, {recursive: true}) throws when a file is in the way.
MkdirThrows(d, dir) == \E a \in Ancestors(dir) : IsFile(d, a)

Mkdir(d, dir) == [d EXCEPT !.dirs = @ \cup Ancestors(dir)]

\* fs.writeFileSync(path, content) throws on a directory.
WriteThrows(d, path) == path \in d.dirs

WriteFile(d, path, content) ==
    [d EXCEPT !.files = {f \in @ : f[1] # path} \cup {<<path, LengthOf(content)>>}]

\* How many calls of a file tool a behaviour follows.
MaxFileCalls == 2

IdleExec ==
    [pc |-> "idle", n |-> 0, name |-> "", path |-> UndefinedArg,
     content |-> UndefinedContent, groupFolder |-> "",
     validated |-> Rejected(""), ret |-> Returns("", 0), fsOps |-> <<>>,
     isMain |-> FALSE]

(***************************************************************************)
(* local-agent.ts: callOllama.                                             *)
(***************************************************************************)
MAX_RETRIES == 2

\* What a fetch comes to: it throws (network error, abort on timeout), or a
\* response with a status and a body.  Of the body: whether it parses as
\* JSON, whether it contains 'tool_use_failed', whether its
\* error.failed_generation holds <function=name>args</function> or a
\* "text": "..." value, and the seconds of 'try again in Ns', 0 for none.
NetworkError ==
    [status |-> 0, parses |-> FALSE, toolUseFailed |-> FALSE,
     fnMatch |-> FALSE, textMatch |-> FALSE, tryAgainIn |-> 0]

Answer(status, parses, toolUseFailed, fnMatch, textMatch, tryAgainIn) ==
    [status |-> status, parses |-> parses, toolUseFailed |-> toolUseFailed,
     fnMatch |-> fnMatch, textMatch |-> textMatch, tryAgainIn |-> tryAgainIn]

Answers ==
    {NetworkError} \cup
    {Answer(200, parses, FALSE, FALSE, FALSE, 0) : parses \in BOOLEAN} \cup
    {Answer(status, TRUE, FALSE, FALSE, FALSE, secs) :
        status \in {429, 413}, secs \in {0, 17}} \cup
    {Answer(400, TRUE, TRUE, fnMatch, textMatch, 0) :
        fnMatch \in BOOLEAN, textMatch \in BOOLEAN} \cup
    {Answer(400, FALSE, TRUE, FALSE, FALSE, 0),
     Answer(400, TRUE, FALSE, FALSE, TRUE, 0),
     Answer(500, FALSE, FALSE, FALSE, FALSE, 0),
     Answer(429, TRUE, TRUE, TRUE, FALSE, 0)}

\* How many calls of callOllama a behaviour follows.
MaxCompletions == 2

IdleHttp ==
    [pc |-> "idle", n |-> 0, attempt |-> 0, fetches |-> 0, answers |-> <<>>,
     waited |-> <<>>, outcome |-> ""]

(***************************************************************************)
(* local-agent.ts: the EbayApi of the module, and invocations of           *)
(* runLocalAgent that run side by side, each for its group and session.    *)
(***************************************************************************)
Parallel == {"i1", "i2"}

GroupOf(i) == IF i = "i1" THEN "g" ELSE "h"

\* null, and the n-th EbayApi constructed; writer is the invocation that
\* assigned the variable.
NoInstance == [api |-> 0, writer |-> ""]

Instance(n, writer) == [api |-> n, writer |-> writer]

\* How many ebay tool calls an invocation makes.
MaxEbayCalls == 2

\* host.js splitMessage: a text is written as its runs of equal characters,
\* ch repeated n times; the function only looks at lengths, line breaks and
\* blanks.
Run(ch, n) == [ch |-> ch, n |-> n]

\* No call of splitMessage under way.
IdleSplit ==
    [pc |-> "idle", text |-> <<>>, remaining |-> <<>>, chunks |-> <<>>,
     removed |-> <<>>]

IdleInvocation ==
    [pc |-> "idle", ebayCalls |-> 0, api |-> 0, readFrom |-> {},
     overwrote |-> {}, sessionId |-> <<>>, messages |-> <<>>, rounds |-> 0]

VARIABLES
    channelMappings,   \* host.js: let channelMappings = []
    calls,             \* the calls of handleDiscordIpc in flight, per slot
    results,           \* {dataDir}/ipc/{group}/discord_results/{requestId}.json
    lastReturned,      \* history: the call that ended before the one in flight
    tasks,             \* {dataDir}/ipc/{group}/tasks/, by file name
    tools,             \* the discord_send tool invocations, per agent
    issued,            \* how many requestIds and file names have been generated
    enqueued,          \* history: the document given to writeIpcFile, per name
    sessions,          \* the stored sessions of the group, by session id
    run,               \* the invocation of runLocalAgent: its locals, and history
    disk,              \* the directories and files under GROUPS_DIR
    exec,              \* the call of executeTool for a file tool, and history
    http,              \* the call of callOllama: its locals, and history
    ebayApiInstance,   \* local-agent.ts: let ebayApiInstance = null
    running,           \* the invocations of runLocalAgent side by side
    split              \* host.js: the call of splitMessage, and its locals

agentVars == <<tasks, tools, issued, enqueued>>

callVars == <<http, ebayApiInstance, running, split>>

localVars == <<sessions, run, disk, exec, callVars>>

vars == <<channelMappings, calls, results, lastReturned, tasks, tools, issued,
          enqueued, sessions, run, disk, exec, http, ebayApiInstance, running,
          split>>

\* No completion call under way, no EbayApi, no invocation running.
InitCalls ==
    /\ http = IdleHttp
    /\ ebayApiInstance = NoInstance
    /\ running = [i \in Parallel |-> IdleInvocation]
    /\ split = IdleSplit

\* Nothing stored, no invocation and no tool call under way.
InitLocal ==
    /\ sessions = [id \in SessionIds |-> NoSession]
    /\ run = IdleRun
    /\ disk = EmptyDisk
    /\ exec = IdleExec
    /\ InitCalls

(***************************************************************************)
(* host.js: the registry.                                                  *)
(***************************************************************************)
\* A slip: an unknown channel falls back to the first mapping of the list.
getMappingForChannel_Fallback(channelId) ==
    LET hits == SelectSeq(channelMappings,
                          LAMBDA m : m.discordChannelId = channelId)
    IN IF hits # <<>> THEN <<hits[1]>>
       ELSE IF channelMappings # <<>> THEN <<channelMappings[1]>> ELSE <<>>

\* A slip: a channel the call that died had sent to is not looked up again.
getMappingForChannel_Once(channelId) ==
    LET hits == SelectSeq(channelMappings,
                          LAMBDA m : m.discordChannelId = channelId)
    IN IF hits = <<>> \/ (lastReturned.sends = 1
                            /\ lastReturned.data.channelId = channelId)
       THEN <<>> ELSE <<hits[1]>>

\* Array.prototype.find: the first mapping of the channel, <<>> for undefined.
getMappingForChannel(channelId) ==
    LET hits == SelectSeq(channelMappings,
                          LAMBDA m : m.discordChannelId = channelId)
    IN IF hits = <<>> THEN <<>> ELSE <<hits[1]>>

\* Array.prototype.find: the first mapping of the group, <<>> for undefined.
getMappingForGroup(groupFolder) ==
    LET hits == SelectSeq(channelMappings,
                          LAMBDA m : m.nanoClawGroup = groupFolder)
    IN IF hits = <<>> THEN <<>> ELSE <<hits[1]>>

reloadChannelMappings ==
    /\ \E mappings \in LoadableMappings : channelMappings' = mappings
    /\ UNCHANGED <<localVars, calls, results, lastReturned, agentVars>>

\* Without auth (loadAuth() null) nothing is loaded.  The client object is
\* not state of the model: sendToChannel fails when there is none.
initDiscordClient ==
    /\ \E auth \in BOOLEAN, mappings \in LoadableMappings :
          channelMappings' = IF auth THEN mappings ELSE channelMappings
    /\ UNCHANGED <<localVars, calls, results, lastReturned, agentVars>>

(***************************************************************************)
(* host.js: handleDiscordIpc.  Its synchronous part runs to the first      *)
(* await (sendToChannel) or to writeResult; the rest runs when the send    *)
(* has settled.  writeResult is fs.writeFileSync on the final path: the    *)
(* file is opened (created or truncated) and then filled.                  *)
(***************************************************************************)
\* A slip: any present type is claimed.
IsDiscordType_AnyType(type) == Len(type) >= 1

IsDiscordType(type) == StartsWith(type, DiscordPrefix)

\* A slip: the requestId test is gone.
MissingRequestId_Unchecked(requestId) == FALSE

MissingRequestId(requestId) == requestId = NoRequestId

MissingFields(channelId, text) == channelId = NoValue \/ text = NoValue

\* A slip: the identity is taken from the payload.
CallerIsMain_FromPayload(data, isMain) == data.isMain

\* The identity the check reads: the arguments of handleDiscordIpc, which
\* the host derives from the directory the task was found in.
CallerIsMain(data, isMain) == isMain

CallerGroup(data, sourceGroup) == sourceGroup

\* A slip: === for !==.
NotAuthorized_Inverted(isMain, mapping, sourceGroup) ==
    ~isMain /\ mapping.nanoClawGroup = sourceGroup

NotAuthorized(isMain, mapping, sourceGroup) ==
    ~isMain /\ mapping.nanoClawGroup # sourceGroup

\* The call as the synchronous part of handleDiscordIpc leaves it.
Dispatch(data, sourceGroup, isMain) ==
    LET call == [IdleCall EXCEPT !.data = data, !.sourceGroup = sourceGroup,
                                 !.isMain = isMain]
        deny(result) == [call EXCEPT !.pc = "write", !.result = result]
    IN IF ~IsDiscordType(data.type)
       THEN [call EXCEPT !.pc = "returned", !.ret = "false"]
       ELSE IF MissingRequestId(data.requestId)
       THEN [call EXCEPT !.pc = "returned", !.ret = "true"]
       ELSE IF data.type = DiscordSend
       THEN IF MissingFields(data.channelId, data.text)
            THEN deny(MissingFieldsResult)
            ELSE LET mapping == getMappingForChannel(data.channelId)
                 IN IF mapping = <<>>
                    THEN [deny(UnmappedResult) EXCEPT !.looked = TRUE]
                    ELSE IF NotAuthorized(CallerIsMain(data, isMain), mapping[1],
                                          CallerGroup(data, sourceGroup))
                    THEN [deny(UnauthorizedResult) EXCEPT !.looked = TRUE]
                    ELSE [call EXCEPT !.pc = "sending", !.sends = 1,
                                      !.looked = TRUE]
       ELSE [call EXCEPT !.pc = "returned", !.ret = "false"]

handleDiscordIpc(s, data, sourceGroup, isMain) ==
    /\ calls[s].pc = "idle"
    /\ calls' = [calls EXCEPT ![s] = Dispatch(data, sourceGroup, isMain)]
    /\ UNCHANGED <<localVars, channelMappings, results, lastReturned, agentVars>>

\* sendToChannel settles: false without a client, for an unknown channel or
\* when a send throws, true when every chunk went out.
sendToChannel(s) ==
    /\ calls[s].pc = "sending"
    /\ \E success \in BOOLEAN :
          calls' = [calls EXCEPT ![s].pc = "write",
                                 ![s].result = SendResult(success)]
    /\ UNCHANGED <<localVars, channelMappings, results, lastReturned, agentVars>>

ResultFileOf(call) == <<call.sourceGroup, call.data.requestId>>

\* A slip: a failure is written by its branch and again after the switch.
AfterWriteResult_Twice(call) ==
    IF ~call.result.success /\ call.writes < 2
    THEN [call EXCEPT !.pc = "write"]
    ELSE [call EXCEPT !.pc = "returned", !.ret = "true"]

\* What follows writeResult in handleDiscordIpc: the logging and return true.
AfterWriteResult(call) == [call EXCEPT !.pc = "returned", !.ret = "true"]

writeResultOpen(s) ==
    /\ calls[s].pc = "write"
    /\ LET f == ResultFileOf(calls[s])
       IN /\ results' = [results EXCEPT ![f] = OpenedFile]
          /\ calls' = [calls EXCEPT
                         ![s].pc = "writing", ![s].writes = @ + 1,
                         ![s].overwrote = @ \/ results[f].present]
    /\ UNCHANGED <<localVars, channelMappings, lastReturned, agentVars>>

writeResultFill(s) ==
    /\ calls[s].pc = "writing"
    /\ results' = [results EXCEPT
                     ![ResultFileOf(calls[s])] = WrittenFile(calls[s].result)]
    /\ calls' = [calls EXCEPT ![s] = AfterWriteResult(calls[s])]
    /\ UNCHANGED <<localVars, channelMappings, lastReturned, agentVars>>

\* The caller has taken the returned value; the slot is free again.
Returned(s) ==
    /\ calls[s].pc = "returned"
    /\ calls' = [calls EXCEPT ![s] = IdleCall]
    /\ UNCHANGED <<localVars, channelMappings, results, lastReturned, agentVars>>

(***************************************************************************)
(* The host alone: any request, from any group, with either privilege.     *)
(***************************************************************************)
Init ==
    /\ channelMappings = <<>>
    /\ calls = [s \in HandlerSlots |-> IdleCall]
    /\ results = [f \in ResultFiles |-> NoFile]
    /\ lastReturned = IdleCall
    /\ tasks = [f \in Groups \X TaskNames |-> NoTask]
    /\ tools = [a \in Agents |-> IdleTool]
    /\ issued = 0
    /\ enqueued = [i \in RequestIds |-> NoRequest]
    /\ InitLocal

HostRequests == {d \in Requests : d.requestId \in {1, NoRequestId}}

HandleAny ==
    \E s \in HandlerSlots, data \in HostRequests, sourceGroup \in Groups,
       isMain \in BOOLEAN : handleDiscordIpc(s, data, sourceGroup, isMain)

SendSettles == \E s \in HandlerSlots : sendToChannel(s)

WriteOpens == \E s \in HandlerSlots : writeResultOpen(s)

WriteFills == \E s \in HandlerSlots : writeResultFill(s)

CallReturns == \E s \in HandlerSlots : Returned(s)

Next ==
    \/ initDiscordClient
    \/ reloadChannelMappings
    \/ HandleAny
    \/ SendSettles
    \/ WriteOpens
    \/ WriteFills
    \/ CallReturns

Spec == Init /\ [][Next]_vars

(***************************************************************************)
(* agent.ts: the discord_send tool.  It validates the channel id, drops    *)
(* the request with writeIpcFile and waits for its Result.                 *)
(***************************************************************************)
TaskDoc(a, requestId, channelId, text) ==
    [type |-> DiscordSend, requestId |-> requestId, channelId |-> channelId,
     text |-> text, groupFolder |-> AgentContext(a).groupFolder,
     isMain |-> AgentContext(a).isMain]

\* The container's /workspace/ipc is the host's {dataDir}/ipc/{groupFolder}.
TaskFileOf(a, name) == <<AgentContext(a).groupFolder, name>>

WaitedFileOf(a) == <<AgentContext(a).groupFolder, tools[a].requestId>>

discord_send(a, channel_id, text) ==
    /\ tools[a].pc = "idle"
    /\ IF ~IsSnowflake(channel_id)
       THEN /\ tools' = [tools EXCEPT ![a] = [IdleTool EXCEPT
                            !.pc = "returned", !.channelId = channel_id,
                            !.text = text, !.ret = InvalidChannelResult]]
            /\ UNCHANGED <<localVars, issued, enqueued>>
       ELSE /\ issued < MaxRequests
            /\ issued' = issued + 1
            /\ tools' = [tools EXCEPT ![a] = [IdleTool EXCEPT
                            !.pc = "tmp_open", !.requestId = issued + 1,
                            !.channelId = channel_id, !.text = text]]
            /\ enqueued' = [enqueued EXCEPT ![issued + 1] =
                              TaskDoc(a, issued + 1, channel_id, text)]
    /\ UNCHANGED <<localVars, channelMappings, calls, results, lastReturned, tasks>>

\* writeIpcFile: fs.writeFileSync(tempPath) opens the file, then fills it.
writeIpcFileOpen(a) ==
    /\ tools[a].pc = "tmp_open"
    /\ tasks' = [tasks EXCEPT
                   ![TaskFileOf(a, TempPathOf(FilePath(tools[a].requestId)))] =
                      OpenedTask]
    /\ tools' = [tools EXCEPT ![a].pc = "tmp_fill"]
    /\ UNCHANGED <<localVars, channelMappings, calls, results, lastReturned, issued, enqueued>>

writeIpcFileFill(a) ==
    /\ tools[a].pc = "tmp_fill"
    /\ tasks' = [tasks EXCEPT
                   ![TaskFileOf(a, TempPathOf(FilePath(tools[a].requestId)))] =
                      WrittenTask(TaskDoc(a, tools[a].requestId,
                                          tools[a].channelId, tools[a].text))]
    /\ tools' = [tools EXCEPT ![a].pc = "rename"]
    /\ UNCHANGED <<localVars, channelMappings, calls, results, lastReturned, issued, enqueued>>

\* fs.renameSync(tempPath, filepath), then waitForResult(requestId) begins.
writeIpcFileRename(a) ==
    /\ tools[a].pc = "rename"
    /\ LET filepath == FilePath(tools[a].requestId)
           tempPath == TempPathOf(filepath)
       IN tasks' = [f \in DOMAIN tasks |->
                      IF f = TaskFileOf(a, filepath)
                      THEN tasks[TaskFileOf(a, tempPath)]
                      ELSE IF f = TaskFileOf(a, tempPath) THEN NoTask
                      ELSE tasks[f]]
    /\ tools' = [tools EXCEPT ![a].pc = "poll", ![a].elapsed = 0]
    /\ UNCHANGED <<localVars, channelMappings, calls, results, lastReturned, issued, enqueued>>

\* The container dies inside writeIpcFile; what is on disk stays.
AgentCrash(a) ==
    /\ tools[a].pc \in {"tmp_open", "tmp_fill", "rename"}
    /\ tools' = [tools EXCEPT ![a] = IdleTool]
    /\ UNCHANGED <<localVars, channelMappings, calls, results, lastReturned, tasks, issued,
                   enqueued>>

(***************************************************************************)
(* agent.ts: waitForResult.  One pass of the loop tests the file, and      *)
(* sleeps pollInterval when it is not there; the read and the unlink are   *)
(* further file operations the host can interleave with.                   *)
(***************************************************************************)
\* A slip: <= for <.
KeepPolling_Inclusive(elapsed, maxWait) == elapsed <= maxWait

KeepPolling(elapsed, maxWait) == elapsed < maxWait

\* A slip: the file is left behind.
Unlinked_Kept(file) == file

\* fs.unlinkSync
Unlinked(file) == NoFile

waitForResultPoll(a) ==
    /\ tools[a].pc = "poll"
    /\ tools' = [tools EXCEPT ![a] =
          IF ~KeepPolling(tools[a].elapsed, DefaultMaxWait)
          THEN [@ EXCEPT !.pc = "returned", !.ret = TimedOutResult]
          ELSE IF results[WaitedFileOf(a)].present
          THEN [@ EXCEPT !.pc = "read"]
          ELSE [@ EXCEPT !.elapsed = @ + PollInterval]]
    /\ UNCHANGED <<localVars, channelMappings, calls, results, lastReturned, tasks, issued,
                   enqueued>>

\* JSON.parse(fs.readFileSync(resultFile)): throws on a file that is gone or
\* not yet filled.
waitForResultRead(a) ==
    /\ tools[a].pc = "read"
    /\ LET file == results[WaitedFileOf(a)]
       IN tools' = [tools EXCEPT ![a] =
             IF file.present /\ file.complete
             THEN [@ EXCEPT !.pc = "unlink", !.buf = file.result]
             ELSE [@ EXCEPT !.pc = "returned", !.ret = ReadFailedResult]]
    /\ UNCHANGED <<localVars, channelMappings, calls, results, lastReturned, tasks, issued,
                   enqueued>>

\* fs.unlinkSync(resultFile), inside the same try: throws on a file that is gone.
waitForResultUnlink(a) ==
    /\ tools[a].pc = "unlink"
    /\ LET f == WaitedFileOf(a)
       IN IF results[f].present
          THEN /\ results' = [results EXCEPT ![f] = Unlinked(results[f])]
               /\ tools' = [tools EXCEPT ![a].pc = "returned",
                                         ![a].ret = tools[a].buf]
          ELSE /\ results' = results
               /\ tools' = [tools EXCEPT ![a].pc = "returned",
                                         ![a].ret = ReadFailedResult]
    /\ UNCHANGED <<localVars, channelMappings, calls, lastReturned, tasks, issued, enqueued>>

\* The tool hands {content: result.message, isError: !result.success} back.
ToolReturned(a) ==
    /\ tools[a].pc = "returned"
    /\ tools' = [tools EXCEPT ![a] = IdleTool]
    /\ UNCHANGED <<localVars, channelMappings, calls, results, lastReturned, tasks, issued,
                   enqueued>>

(***************************************************************************)
(* The host's task watcher (src/index.ts, processTaskIpc): it takes a      *)
(* *.json file of a group's tasks directory, hands the parsed document to  *)
(* handleDiscordIpc with the directory's group as sourceGroup, and removes *)
(* the file.  A file that does not parse is removed without a call.        *)
(***************************************************************************)
MainGroupFolder == "main"

processTaskIpc(s, group, name) ==
    /\ EndsWith(name, ".json")
    /\ tasks[<<group, name>>].present
    /\ calls[s].pc = "idle"
    /\ calls' = [calls EXCEPT ![s] =
          IF tasks[<<group, name>>].complete
          THEN Dispatch(tasks[<<group, name>>].doc, group, group = MainGroupFolder)
          ELSE IdleCall]
    /\ tasks' = [tasks EXCEPT ![<<group, name>>] = NoTask]
    /\ UNCHANGED <<localVars, channelMappings, results, lastReturned, tools, issued, enqueued>>

(***************************************************************************)
(* The round trip: the agent's tool, the task watcher and the host.        *)
(***************************************************************************)
ToolInvoked ==
    \E a \in Agents, channel_id \in ToolChannelArgs, text \in ToolTextArgs :
       discord_send(a, channel_id, text)

TaskTaken ==
    \E s \in HandlerSlots, group \in Groups, name \in TaskNames :
       processTaskIpc(s, group, name)

NextMailbox ==
    \/ reloadChannelMappings
    \/ ToolInvoked
    \/ \E a \in Agents : writeIpcFileOpen(a)
    \/ \E a \in Agents : writeIpcFileFill(a)
    \/ \E a \in Agents : writeIpcFileRename(a)
    \/ \E a \in Agents : AgentCrash(a)
    \/ TaskTaken
    \/ SendSettles
    \/ WriteOpens
    \/ WriteFills
    \/ CallReturns
    \/ \E a \in Agents : waitForResultPoll(a)
    \/ \E a \in Agents : waitForResultRead(a)
    \/ \E a \in Agents : waitForResultUnlink(a)
    \/ \E a \in Agents : ToolReturned(a)

SpecMailbox == Init /\ [][NextMailbox]_vars

(***************************************************************************)
(* The round trip with the waiter's loop in finer steps: the test of the   *)
(* loop and of the file is one step, the sleep of pollInterval another, so *)
(* that the host can publish while the waiter sleeps.                      *)
(***************************************************************************)
\* while (elapsed < maxWait) { if (fs.existsSync(resultFile)) ...
waitForResultCheck(a) ==
    /\ tools[a].pc = "poll"
    /\ tools' = [tools EXCEPT ![a] =
          IF ~KeepPolling(tools[a].elapsed, DefaultMaxWait)
          THEN [@ EXCEPT !.pc = "returned", !.ret = TimedOutResult]
          ELSE IF results[WaitedFileOf(a)].present
          THEN [@ EXCEPT !.pc = "read"]
          ELSE [@ EXCEPT !.pc = "sleep"]]
    /\ UNCHANGED <<localVars, channelMappings, calls, results, lastReturned,
                   tasks, issued, enqueued>>

\* await new Promise(resolve => setTimeout(resolve, pollInterval));
\* elapsed += pollInterval
waitForResultSleep(a) ==
    /\ tools[a].pc = "sleep"
    /\ tools' = [tools EXCEPT ![a].pc = "poll",
                              ![a].elapsed = @ + PollInterval]
    /\ UNCHANGED <<localVars, channelMappings, calls, results, lastReturned,
                   tasks, issued, enqueued>>

NextPolling ==
    \/ reloadChannelMappings
    \/ ToolInvoked
    \/ \E a \in Agents : writeIpcFileOpen(a)
    \/ \E a \in Agents : writeIpcFileFill(a)
    \/ \E a \in Agents : writeIpcFileRename(a)
    \/ TaskTaken
    \/ SendSettles
    \/ WriteOpens
    \/ WriteFills
    \/ CallReturns
    \/ \E a \in Agents : waitForResultCheck(a)
    \/ \E a \in Agents : waitForResultSleep(a)
    \/ \E a \in Agents : waitForResultRead(a)
    \/ \E a \in Agents : waitForResultUnlink(a)
    \/ \E a \in Agents : ToolReturned(a)

SpecPolling == Init /\ [][NextPolling]_vars

\* The waiter is a running loop of the agent's process: a step of it that
\* stays possible is taken.
WaiterFairness ==
    \A a \in Agents :
       /\ WF_vars(waitForResultPoll(a))
       /\ WF_vars(waitForResultRead(a))
       /\ WF_vars(waitForResultUnlink(a))

SpecMailboxFair == SpecMailbox /\ WaiterFairness

(***************************************************************************)
(* Two calls on the same mapping list that differ only in the identity     *)
(* the payload claims: the second call repeats the first one's arguments   *)
(* with another groupFolder or isMain in the document.                     *)
(***************************************************************************)
InitTwin ==
    /\ channelMappings \in LoadableMappings
    /\ calls = [s \in HandlerSlots |-> IdleCall]
    /\ results = [f \in ResultFiles |-> NoFile]
    /\ lastReturned = IdleCall
    /\ tasks = [f \in Groups \X TaskNames |-> NoTask]
    /\ tools = [a \in Agents |-> IdleTool]
    /\ issued = 0
    /\ enqueued = [i \in RequestIds |-> NoRequest]
    /\ InitLocal

HandleFirst ==
    /\ lastReturned.pc = "idle"
    /\ HandleAny

HandleTwin ==
    /\ lastReturned.pc = "returned"
    /\ \E s \in HandlerSlots, groupFolder \in Groups, isMain \in BOOLEAN :
          /\ <<groupFolder, isMain>> #
                <<lastReturned.data.groupFolder, lastReturned.data.isMain>>
          /\ handleDiscordIpc(s, [lastReturned.data EXCEPT
                                    !.groupFolder = groupFolder,
                                    !.isMain = isMain],
                              lastReturned.sourceGroup, lastReturned.isMain)

\* The first call's record is kept for the comparison; the pair is dropped
\* when the second one has returned.
TwinReturned ==
    \E s \in HandlerSlots :
       /\ calls[s].pc = "returned"
       /\ calls' = [calls EXCEPT ![s] = IdleCall]
       /\ lastReturned' = IF lastReturned.pc = "idle" THEN calls[s] ELSE IdleCall
       /\ UNCHANGED <<localVars, channelMappings, results, agentVars>>

NextTwin ==
    \/ HandleFirst
    \/ HandleTwin
    \/ SendSettles
    \/ WriteOpens
    \/ WriteFills
    \/ TwinReturned

SpecTwin == InitTwin /\ [][NextTwin]_vars

(***************************************************************************)
(* Two waitForResult calls on the same requestId, each started at any      *)
(* time, against one call of the host that writes the Result (or none).    *)
(* A call that has returned keeps its value.                               *)
(***************************************************************************)
Waiters == {"w1", "w2"}

InitWaiters ==
    /\ channelMappings \in LoadableMappings
    /\ calls = [s \in HandlerSlots |-> IdleCall]
    /\ results = [f \in ResultFiles |-> NoFile]
    /\ lastReturned = IdleCall
    /\ tasks = [f \in Groups \X TaskNames |-> NoTask]
    /\ tools = [w \in Waiters |-> IdleTool]
    /\ issued = 0
    /\ enqueued = [i \in RequestIds |-> NoRequest]
    /\ InitLocal

\* waitForResult(requestId) with the default maxWait: elapsed = 0.
waitForResult(w, requestId) ==
    /\ tools[w].pc = "idle"
    /\ tools' = [tools EXCEPT ![w] = [IdleTool EXCEPT !.pc = "poll",
                                                      !.requestId = requestId]]
    /\ UNCHANGED <<localVars, channelMappings, calls, results, lastReturned, tasks, issued,
                   enqueued>>

NextWaiters ==
    \/ \E w \in Waiters : waitForResult(w, 1)
    \/ HandleFirst
    \/ SendSettles
    \/ WriteOpens
    \/ WriteFills
    \/ TwinReturned
    \/ \E w \in Waiters : waitForResultPoll(w)
    \/ \E w \in Waiters : waitForResultRead(w)
    \/ \E w \in Waiters : waitForResultUnlink(w)

SpecWaiters == InitWaiters /\ [][NextWaiters]_vars

(***************************************************************************)
(* The round trip with a host that can die inside a call, and a caller     *)
(* that sends the same message again after 'Request timed out'.  t1 is the *)
(* first invocation of the tool, t2 the resubmission; both keep their      *)
(* returned value.                                                         *)
(***************************************************************************)
Invocations == {"t1", "t2"}

InitCrash ==
    /\ channelMappings \in LoadableMappings
    /\ calls = [s \in HandlerSlots |-> IdleCall]
    /\ results = [f \in ResultFiles |-> NoFile]
    /\ lastReturned = IdleCall
    /\ tasks = [f \in Groups \X TaskNames |-> NoTask]
    /\ tools = [a \in Invocations |-> IdleTool]
    /\ issued = 0
    /\ enqueued = [i \in RequestIds |-> NoRequest]
    /\ InitLocal

\* The host process dies inside handleDiscordIpc: the call is gone with all
\* it knew, what is on disk and what was sent stays.
HostCrash(s) ==
    /\ calls[s].pc \in {"sending", "write", "writing"}
    /\ lastReturned.pc = "idle"
    /\ lastReturned' = calls[s]
    /\ calls' = [calls EXCEPT ![s] = IdleCall]
    /\ UNCHANGED <<localVars, channelMappings, results, agentVars>>

FirstSubmit ==
    \E channel_id \in ToolChannelArgs, text \in ToolTextArgs :
       discord_send("t1", channel_id, text)

\* The caller saw 'Request timed out' and calls the tool again with the
\* same arguments; createDiscordTools draws a new requestId.
Resubmit ==
    /\ tools["t1"].pc = "returned"
    /\ tools["t1"].ret = TimedOutResult
    /\ discord_send("t2", tools["t1"].channelId, tools["t1"].text)

NextCrash ==
    \/ reloadChannelMappings
    \/ FirstSubmit
    \/ Resubmit
    \/ \E a \in Invocations : writeIpcFileOpen(a)
    \/ \E a \in Invocations : writeIpcFileFill(a)
    \/ \E a \in Invocations : writeIpcFileRename(a)
    \/ TaskTaken
    \/ SendSettles
    \/ \E s \in HandlerSlots : HostCrash(s)
    \/ WriteOpens
    \/ WriteFills
    \/ CallReturns
    \/ \E a \in Invocations : waitForResultPoll(a)
    \/ \E a \in Invocations : waitForResultRead(a)
    \/ \E a \in Invocations : waitForResultUnlink(a)

SpecCrash == InitCrash /\ [][NextCrash]_vars

(***************************************************************************)
(* local-agent.ts: runLocalAgent.  A step is what runs between two awaits  *)
(* of callOllama: the start up to the first call, the handling of a        *)
(* response up to the next call or the return.  The run record keeps the   *)
(* locals, and as history what was loaded, what the first call was given   *)
(* and how often callOllama and executeTool were invoked.                  *)
(***************************************************************************)
mailboxVars == <<channelMappings, calls, results, lastReturned, agentVars>>

loadSession(sessionId) ==
    IF sessionId # NoSessionId /\ sessions[sessionId].present
    THEN [messages |-> sessions[sessionId].messages, id |-> sessionId]
    ELSE [messages |-> <<>>, id |-> FreshSessionId(run.n + 1)]

\* saveSession(groupFolder, sessionId, session) with
\* session.messages = messages.slice(1): the file is overwritten.
\* A slip: the session is saved before the last message is pushed.
saveSession_Early(sessionId, messages) ==
    sessions' = [sessions EXCEPT ![sessionId] = SessionFile(
                    SubSeq(messages, 2, Len(messages) - 1))]

saveSession(sessionId, messages) ==
    sessions' = [sessions EXCEPT ![sessionId] = SessionFile(Slice(messages, 1))]

\* The head of the while loop: the next tool-enabled call, or past the
\* budget the final call with an empty tool set.
NextCall(r) ==
    IF WithinBudget(r.iterations)
    THEN [r EXCEPT !.pc = "completion", !.iterations = @ + 1,
                   !.toolEnabledCalls = @ + 1]
    ELSE [r EXCEPT !.pc = "final", !.exit = "budget", !.finalCalls = @ + 1]

\* A slip: the failure is reported as a success without a result.
Failed_Success(r) ==
    [r EXCEPT !.pc = "done", !.status = "success", !.result = NullResult]

\* The catch of runLocalAgent: status error, nothing saved.
Failed(r) ==
    [r EXCEPT !.pc = "done", !.status = "error", !.result = NullResult]

runLocalAgent(prompt, sessionId) ==
    /\ run.pc = "idle"
    /\ run.n < MaxRuns
    /\ LET loaded == loadSession(sessionId)
           messages == <<SystemMessage>> \o RecentHistory(loaded.messages)
                          \o <<UserMessage(prompt)>>
       IN run' = NextCall([IdleRun EXCEPT
                    !.n = run.n + 1, !.prompt = prompt, !.sessionId = loaded.id,
                    !.loaded = loaded.messages, !.first = messages,
                    !.messages = messages])
    /\ UNCHANGED <<mailboxVars, callVars, sessions, disk, exec>>

\* for (const toolCall of assistantMessage.tool_calls), from the k-th call.
RECURSIVE ExecuteToolCalls(_, _, _)
ExecuteToolCalls(r, tool_calls, k) ==
    IF k > Len(tool_calls) THEN r
    ELSE LET toolCall == tool_calls[k]
             toolName == toolCall.name
             count == Incremented(PropertyOf(r.toolCallCounts, toolName))
             counted == [r EXCEPT !.toolCallCounts[toolName] = count,
                                  !.attempts[toolName] = @ + 1]
             id == toolCall.id
         IN IF Exceeds(count, LimitOf(toolName))
            THEN ExecuteToolCalls(
                    [counted EXCEPT
                       !.messages =
                          Append(@, ToolMessage(TooManyTimes, id)),
                       !.blocked = Append(@, id),
                       !.loopAborted = TRUE],
                    tool_calls, k + 1)
            ELSE ExecuteToolCalls(
                    [counted EXCEPT
                       !.executed[toolName] = @ + 1,
                       !.invoked = Append(@, [id |-> id,
                                              throws |-> toolCall.throws,
                                              length |-> toolCall.length,
                                              arguments |-> toolCall.arguments,
                                              args |-> ParsedArguments(toolCall)]),
                       !.messages =
                          Append(@, ToolMessage(Truncated(ToolResult(toolCall)),
                                                id))],
                    tool_calls, k + 1)

\* The response of a tool-enabled callOllama arrives.
callOllamaResponds(response) ==
    /\ run.pc = "completion"
    /\ CASE response.kind \in {"throw", "empty"} ->
              /\ run' = Failed([run EXCEPT !.response = response.kind])
              /\ UNCHANGED sessions
         [] response.kind = "text" ->
              LET messages == Append(run.messages,
                                     AssistantMessage(response.content, <<>>))
              IN /\ saveSession(run.sessionId, messages)
                 /\ run' = [run EXCEPT
                       !.pc = "done", !.messages = messages, !.exit = "text",
                       !.response = response.kind,
                       !.status = "success", !.saves = @ + 1,
                       !.result = IF response.content = "" THEN NullResult
                                  ELSE response.content]
         [] response.kind = "tools" ->
              LET tool_calls == WithIds(response.tool_calls, run.iterations)
                  asked == [run EXCEPT
                              !.messages = Append(@, AssistantMessage(
                                              response.content, tool_calls)),
                              !.toolResponses = @ + 1,
                              !.response = response.kind]
                  processed == ExecuteToolCalls(asked, tool_calls, 1)
              IN /\ run' = IF processed.loopAborted
                           THEN [processed EXCEPT !.pc = "final",
                                                  !.exit = "guardrail",
                                                  !.finalCalls = @ + 1]
                           ELSE NextCall(processed)
                 /\ UNCHANGED sessions
    /\ UNCHANGED <<mailboxVars, callVars, disk, exec>>

\* The response of the final callOllama (empty tool set) arrives: its text,
\* or the fallback of the exit taken; the answer is not added to messages.
callOllamaFinalResponds(response) ==
    /\ run.pc = "final"
    /\ IF response.kind = "throw"
       THEN /\ run' = Failed([run EXCEPT !.response = response.kind])
            /\ UNCHANGED sessions
       ELSE LET finalContent == IF response.kind = "text" THEN response.content
                                ELSE ""
                fallback == IF run.exit = "budget" THEN BudgetFallback
                            ELSE GuardrailFallback
            IN /\ saveSession(run.sessionId, run.messages)
               /\ run' = [run EXCEPT
                     !.pc = "done", !.status = "success", !.saves = @ + 1,
                     !.finalAnswers = @ + 1, !.response = response.kind,
                     !.result = IF finalContent = "" THEN fallback
                                ELSE finalContent]
    /\ UNCHANGED <<mailboxVars, callVars, disk, exec>>

\* The caller has the ContainerOutput; the next invocation can begin.
RunReturned ==
    /\ run.pc = "done"
    /\ run' = [IdleRun EXCEPT !.n = run.n]
    /\ UNCHANGED <<mailboxVars, callVars, sessions, disk, exec>>

Completion(lists) ==
    \E response \in {ThrowResponse, NoChoicesResponse}
                      \cup {TextResponse(content) : content \in Contents}
                      \cup {ToolCallsResponse(tool_calls) : tool_calls \in lists} :
       callOllamaResponds(response)

FinalCompletion ==
    \E response \in {ThrowResponse, NoChoicesResponse}
                      \cup {TextResponse(content) : content \in Contents} :
       callOllamaFinalResponds(response)

(***************************************************************************)
(* One invocation on a new session, the completion asking for any of the   *)
(* tool call lists.                                                        *)
(***************************************************************************)
RunStartsFresh == \E prompt \in Prompts : runLocalAgent(prompt, NoSessionId)

NextLoop ==
    \/ RunStartsFresh
    \/ Completion(ToolCallLists)
    \/ FinalCompletion

SpecLoop == Init /\ [][NextLoop]_vars

(***************************************************************************)
(* One invocation on a new session, the tools behaving in every way: the   *)
(* arguments parse or not, executeTool returns a result around the limit   *)
(* or throws with a message around it.                                     *)
(***************************************************************************)
ResultLengths == {0, MAX_TOOL_RESULT_CHARS, MAX_TOOL_RESULT_CHARS + 1, 5000}

\* 'Tool error: ' and the message: at the limit, and one beyond.
ErrorLengths == {MAX_TOOL_RESULT_CHARS - 12, MAX_TOOL_RESULT_CHARS - 11}

ToolCallVariants(name) ==
    {ToolCall(name, TRUE, FALSE, length) : length \in ResultLengths} \cup
    {ToolCall(name, TRUE, TRUE, length) : length \in ErrorLengths} \cup
    {ToolCall(name, FALSE, FALSE, MAX_TOOL_RESULT_CHARS + 1)}

\* One call, and a message whose fourth call is blocked between calls that
\* are executed.
ExecuteLists ==
    {<<toolCall>> : toolCall \in ToolCallVariants("read_file")} \cup
    {<<first, PlainCall("send_message"), PlainCall("send_message"),
       PlainCall("send_message"), last>> :
          first \in ToolCallVariants("write_file"),
          last \in {ToolCall("write_file", TRUE, TRUE, 5000),
                    ToolCall("write_file", FALSE, FALSE, 0)}}

NextExecute ==
    \/ RunStartsFresh
    \/ Completion(ExecuteLists)
    \/ FinalCompletion

SpecExecute == Init /\ [][NextExecute]_vars

(***************************************************************************)
(* Invocations one after another on a stored session of any of the         *)
(* lengths, or on none, each continuing any session there is.              *)
(***************************************************************************)
InitSession ==
    /\ channelMappings = <<>>
    /\ calls = [s \in HandlerSlots |-> IdleCall]
    /\ results = [f \in ResultFiles |-> NoFile]
    /\ lastReturned = IdleCall
    /\ tasks = [f \in Groups \X TaskNames |-> NoTask]
    /\ tools = [a \in Agents |-> IdleTool]
    /\ issued = 0
    /\ enqueued = [i \in RequestIds |-> NoRequest]
    /\ \E N \in StoredLengths :
          sessions = [id \in SessionIds |->
                        IF id = GivenSessionId /\ N > 0
                        THEN SessionFile(StoredSession(N)) ELSE NoSession]
    /\ run = IdleRun
    /\ disk = EmptyDisk
    /\ exec = IdleExec
    /\ InitCalls

RunStarts ==
    \E prompt \in Prompts, sessionId \in SessionIds \cup {NoSessionId} :
       /\ sessionId # NoSessionId => sessionId \in {GivenSessionId} \cup
                                        {id \in SessionIds : sessions[id].present}
       /\ runLocalAgent(prompt, sessionId)

NextSession ==
    \/ RunStarts
    \/ Completion({Calling(<<"read_file">>)})
    \/ FinalCompletion
    \/ RunReturned

SpecSession == InitSession /\ [][NextSession]_vars

(***************************************************************************)
(* local-agent.ts: executeTool for read_file and write_file.  A call runs  *)
(* to its return in one step; fsOps is the history of its calls of fs.     *)
(***************************************************************************)
FsOp(op, path) == [op |-> op, path |-> path]

executeTool_read_file(args, ctx) ==
    LET call == [IdleExec EXCEPT !.pc = "returned", !.n = exec.n + 1,
                                 !.name = "read_file", !.path = args.path,
                                 !.groupFolder = ctx.groupFolder]
        resolved == validateGroupPath(args.path, ctx.groupFolder)
        valid == [call EXCEPT !.validated = resolved]
        path == resolved.resolved
    IN /\ exec' =
            IF ~resolved.ok
            THEN [valid EXCEPT !.ret = Returns("Error: " \o resolved.error, 0)]
            ELSE IF ~(IsFile(disk, path) \/ path \in disk.dirs)
            THEN [valid EXCEPT !.ret = Returns("File not found: {path}", 0),
                               !.fsOps = <<FsOp("existsSync", path)>>]
            ELSE IF path \in disk.dirs
            THEN [valid EXCEPT !.ret = Returns("Error reading file: {err}", 0),
                               !.fsOps = <<FsOp("existsSync", path),
                                           FsOp("readFileSync", path)>>]
            ELSE LET length == (CHOOSE f \in disk.files : f[1] = path)[2]
                 IN [valid EXCEPT
                       !.ret = IF length = 0 THEN Returns("(empty file)", 0)
                               ELSE Returns("{content}", length),
                       !.fsOps = <<FsOp("existsSync", path),
                                   FsOp("readFileSync", path)>>]
       /\ disk' = disk

executeTool_write_file(args, ctx) ==
    LET call == [IdleExec EXCEPT !.pc = "returned", !.n = exec.n + 1,
                                 !.name = "write_file", !.path = args.path,
                                 !.content = args.content,
                                 !.groupFolder = ctx.groupFolder]
        resolved == validateGroupPath(args.path, ctx.groupFolder)
        valid == [call EXCEPT !.validated = resolved]
        path == resolved.resolved
        content == StringOf(args.content)
    IN IF ~resolved.ok
       THEN /\ exec' = [valid EXCEPT
                          !.ret = Returns("Error: " \o resolved.error, 0)]
            /\ disk' = disk
       ELSE IF ByteLength(content) > MAX_FILE_SIZE
       THEN /\ exec' = [valid EXCEPT !.ret = Returns(
                          "Error: Content exceeds maximum file size of {n}KB",
                          MAX_FILE_SIZE \div 1024)]
            /\ disk' = disk
       ELSE IF MkdirThrows(disk, Dirname(path))
       THEN /\ exec' = [valid EXCEPT
                          !.ret = Returns("Error writing file: {err}", 0),
                          !.fsOps = <<FsOp("mkdirSync", Dirname(path))>>]
            /\ disk' = disk
       ELSE IF WriteThrows(disk, path)
       THEN /\ exec' = [valid EXCEPT
                          !.ret = Returns("Error writing file: {err}", 0),
                          !.fsOps = <<FsOp("mkdirSync", Dirname(path)),
                                      FsOp("writeFileSync", path)>>]
            /\ disk' = Mkdir(disk, Dirname(path))
       ELSE /\ exec' = [valid EXCEPT
                          !.ret = Returns("File written: {path} ({n} chars)",
                                          LengthOf(content)),
                          !.fsOps = <<FsOp("mkdirSync", Dirname(path)),
                                      FsOp("writeFileSync", path)>>]
            /\ disk' = WriteFile(Mkdir(disk, Dirname(path)), path, content)

\* The tool message is made of what executeTool returned; the next call of
\* a tool can begin.
ExecReturned ==
    /\ exec.pc = "returned"
    /\ exec' = [IdleExec EXCEPT !.n = exec.n]
    /\ UNCHANGED <<mailboxVars, callVars, sessions, run, disk>>

ReadFileCalled ==
    /\ exec.pc = "idle"
    /\ exec.n < MaxFileCalls
    /\ \E path \in PathArgs, groupFolder \in Groups :
          executeTool_read_file([path |-> path], [groupFolder |-> groupFolder])
    /\ UNCHANGED <<mailboxVars, callVars, sessions, run>>

WriteFileCalled ==
    /\ exec.pc = "idle"
    /\ exec.n < MaxFileCalls
    /\ \E path \in PathArgs, content \in ContentArgs, groupFolder \in Groups :
          executeTool_write_file([path |-> path, content |-> content],
                                 [groupFolder |-> groupFolder])
    /\ UNCHANGED <<mailboxVars, callVars, sessions, run>>

InitFiles ==
    /\ channelMappings = <<>>
    /\ calls = [s \in HandlerSlots |-> IdleCall]
    /\ results = [f \in ResultFiles |-> NoFile]
    /\ lastReturned = IdleCall
    /\ tasks = [f \in Groups \X TaskNames |-> NoTask]
    /\ tools = [a \in Agents |-> IdleTool]
    /\ issued = 0
    /\ enqueued = [i \in RequestIds |-> NoRequest]
    /\ sessions = [id \in SessionIds |-> NoSession]
    /\ run = IdleRun
    /\ disk = GroupDisk
    /\ exec = IdleExec
    /\ InitCalls

NextFiles ==
    \/ ReadFileCalled
    \/ WriteFileCalled
    \/ ExecReturned

SpecFiles == InitFiles /\ [][NextFiles]_vars

(***************************************************************************)
(* local-agent.ts: executeTool for the tools that drop a request into the  *)
(* tasks directory of the group.  The local agent runs in the process of   *)
(* the host: writeIpcFile is synchronous, a call runs to its return in one *)
(* step.  The i-th file name generated stands for                          *)
(* `${Date.now()}-${random}.json`.                                         *)
(***************************************************************************)
MailboxTools == {"discord_send", "register_group", "x_post"}

\* The names of the tools of getToolDefinitions.
getToolDefinitions ==
    {"send_message", "read_file", "write_file", "ebay_search", "ebay_get_item",
     "ebay_get_orders", "ebay_get_order", "ebay_get_inventory",
     "ebay_mark_shipped"}

\* A name for which the switch of executeTool has no case.
NoSuchTool == "no_such_tool"

\* The data a tool writes, with the fields the code gives it.
DataOf(name, args, ctx) ==
    CASE name = "discord_send" ->
            [type |-> DiscordSend, channelId |-> args.channel_id,
             text |-> args.text, groupFolder |-> ctx.groupFolder,
             isMain |-> ctx.isMain]
      [] name = "register_group" ->
            [type |-> <<"register_", "group">>, jid |-> args.jid,
             name |-> args.name, folder |-> args.folder,
             trigger |-> args.trigger]
      [] name = "x_post" ->
            [type |-> <<"x_", "post">>, content |-> args.content,
             groupFolder |-> ctx.groupFolder, isMain |-> ctx.isMain]

\* A slip: the check of the caller is left to the host.
Refused_Never(name, ctx) == FALSE

\* if (!ctx.isMain) return '...'
Refused(name, ctx) == name \in {"register_group", "x_post"} /\ ~ctx.isMain

RefusalOf(name) ==
    IF name = "register_group"
    THEN "Only the main group can register new groups."
    ELSE "Only the main group can post to X."

ReceiptOf(name) ==
    CASE name = "discord_send" -> "Discord message queued for channel {channel_id}"
      [] name = "register_group" -> "Group {name} registered."
      [] name = "x_post" -> "Tweet queued for posting."

executeTool_mailbox(name, args, ctx) ==
    LET call == [IdleExec EXCEPT !.pc = "returned", !.n = exec.n + 1,
                                 !.name = name,
                                 !.groupFolder = ctx.groupFolder,
                                 !.isMain = ctx.isMain]
        filepath == FilePath(issued + 1)
        tempPath == TempPathOf(filepath)
    IN IF name \notin MailboxTools
       THEN /\ exec' = [call EXCEPT !.ret = Returns("Unknown tool: {name}", 0)]
            /\ UNCHANGED <<tasks, issued>>
       ELSE IF Refused(name, ctx)
       THEN /\ exec' = [call EXCEPT !.ret = Returns(RefusalOf(name), 0)]
            /\ UNCHANGED <<tasks, issued>>
       ELSE /\ issued < MaxRequests
            /\ issued' = issued + 1
            /\ tasks' = [tasks EXCEPT ![<<ctx.groupFolder, filepath>>] =
                            WrittenTask(DataOf(name, args, ctx))]
            /\ exec' = [call EXCEPT
                          !.ret = Returns(ReceiptOf(name), 0),
                          !.fsOps = <<FsOp("mkdirSync", <<"tasks">>),
                                      FsOp("writeFileSync", tempPath),
                                      FsOp("renameSync", filepath)>>]

MailboxArgs ==
    [channel_id : ToolChannelArgs, text : Texts, content : Texts,
     jid : {"j"}, name : {"n"}, folder : Groups, trigger : {"@"}]

MailboxToolCalled ==
    /\ exec.pc = "idle"
    /\ exec.n < MaxFileCalls
    /\ \E name \in MailboxTools \cup {NoSuchTool}, args \in MailboxArgs,
          groupFolder \in Groups,
          isMain \in BOOLEAN :
          executeTool_mailbox(name, args,
                              [groupFolder |-> groupFolder, isMain |-> isMain])
    /\ UNCHANGED <<channelMappings, calls, results, lastReturned, tools,
                   enqueued, sessions, run, disk, callVars>>

MailboxToolReturned ==
    /\ exec.pc = "returned"
    /\ exec' = [IdleExec EXCEPT !.n = exec.n]
    /\ UNCHANGED <<mailboxVars, callVars, sessions, run, disk>>

NextTools ==
    \/ MailboxToolCalled
    \/ MailboxToolReturned

SpecTools == Init /\ [][NextTools]_vars

(***************************************************************************)
(* local-agent.ts: callOllama.  A step is what runs between two awaits:    *)
(* the fetch is issued, its answer is handled up to the wait or the end of *)
(* the call, the wait ends and the next fetch is issued.  answers is the   *)
(* history of what the fetches came to, waited that of the waits in ms.    *)
(***************************************************************************)
callOllama ==
    /\ http.pc = "idle"
    /\ http.n < MaxCompletions
    /\ http' = [IdleHttp EXCEPT !.pc = "fetching", !.n = http.n + 1,
                                !.fetches = 1]
    /\ UNCHANGED <<mailboxVars, sessions, run, disk, exec, ebayApiInstance,
                   running, split>>

\* A slip: every failure is retried.
Retryable_AnyFailure(status, attempt) == status # 200 /\ attempt < MAX_RETRIES

\* (response.status === 429 || response.status === 413) && attempt < MAX_RETRIES
Retryable(status, attempt) == status \in {429, 413} /\ attempt < MAX_RETRIES

\* waitSecs * 1000 + 1000, waitSecs parsed from the body or 20.
WaitOf(answer) ==
    (IF answer.tryAgainIn > 0 THEN answer.tryAgainIn ELSE 20) * 1000 + 1000

\* The salvage of a 400 with 'tool_use_failed': a tool call made from
\* failed_generation, or its text, or nothing.
Salvaged(answer) ==
    IF answer.status = 400 /\ answer.toolUseFailed /\ answer.parses
    THEN IF answer.fnMatch THEN "tool call"
         ELSE IF answer.textMatch THEN "text"
         ELSE ""
    ELSE ""

fetchSettles(answer) ==
    /\ http.pc = "fetching"
    /\ LET h == [http EXCEPT !.answers = Append(@, answer)]
       IN http' =
            IF answer.status = 0
            THEN [h EXCEPT !.pc = "thrown", !.outcome = "fetch failed"]
            ELSE IF answer.status = 200
            THEN IF answer.parses
                 THEN [h EXCEPT !.pc = "returned", !.outcome = "response"]
                 ELSE [h EXCEPT !.pc = "thrown", !.outcome = "invalid json"]
            ELSE IF Retryable(answer.status, http.attempt)
            THEN [h EXCEPT !.pc = "waiting",
                           !.waited = Append(@, WaitOf(answer))]
            ELSE IF Salvaged(answer) # ""
            THEN [h EXCEPT !.pc = "returned", !.outcome = Salvaged(answer)]
            ELSE [h EXCEPT !.pc = "thrown", !.outcome = "LLM API error"]
    /\ UNCHANGED <<mailboxVars, sessions, run, disk, exec, ebayApiInstance,
                   running, split>>

\* The wait is over: continue, attempt++, and the test of the for loop.
waitEnds ==
    /\ http.pc = "waiting"
    /\ http' = IF http.attempt + 1 <= MAX_RETRIES
               THEN [http EXCEPT !.pc = "fetching", !.attempt = @ + 1,
                                 !.fetches = @ + 1]
               ELSE [http EXCEPT !.pc = "thrown", !.attempt = @ + 1,
                                 !.outcome = "max retries exceeded"]
    /\ UNCHANGED <<mailboxVars, sessions, run, disk, exec, ebayApiInstance,
                   running, split>>

\* The caller has the response or the error.
callOllamaEnds ==
    /\ http.pc \in {"returned", "thrown"}
    /\ http' = [IdleHttp EXCEPT !.n = http.n]
    /\ UNCHANGED <<mailboxVars, sessions, run, disk, exec, ebayApiInstance,
                   running, split>>

NextRetry ==
    \/ callOllama
    \/ \E answer \in Answers : fetchSettles(answer)
    \/ waitEnds
    \/ callOllamaEnds

SpecRetry == Init /\ [][NextRetry]_vars

(***************************************************************************)
(* local-agent.ts: invocations of runLocalAgent side by side.  Of an       *)
(* invocation the steps that touch the module's variable are kept: its     *)
(* start, which resets ebayApiInstance, and its ebay tool calls, which get *)
(* the EbayApi from getEbayApi and await its request.  readFrom and        *)
(* overwrote are history: whose assignment an invocation read, and whose   *)
(* it replaced while that invocation was running.                          *)
(***************************************************************************)
IsRunning(i) == running[i].pc = "running"

\* The assignment of who is replaced by an assignment of i.
Replaced(i) ==
    IF ebayApiInstance.writer \notin {"", i} /\ IsRunning(ebayApiInstance.writer)
    THEN {ebayApiInstance.writer} ELSE {}

\* runLocalAgent, up to the first await: ebayApiInstance = null.
runLocalAgentStarts(i) ==
    /\ running[i].pc = "idle"
    /\ running' = [running EXCEPT ![i] = [IdleInvocation EXCEPT
                      !.pc = "running", !.overwrote = Replaced(i)]]
    /\ ebayApiInstance' = Instance(0, i)
    /\ UNCHANGED <<mailboxVars, sessions, run, disk, exec, http, split>>

\* The number of EbayApi objects constructed so far.
Constructed ==
    LET seen == {ebayApiInstance.api} \cup {running[i].api : i \in Parallel}
    IN CHOOSE n \in seen : \A m \in seen : m <= n

\* getEbayApi in an ebay tool of executeTool: the instance of the variable,
\* a new one when the variable is null.
getEbayApi(i) ==
    /\ IsRunning(i)
    /\ running[i].ebayCalls < MaxEbayCalls
    /\ IF ebayApiInstance.api = 0
       THEN /\ ebayApiInstance' = Instance(Constructed + 1, i)
            /\ running' = [running EXCEPT
                  ![i].ebayCalls = @ + 1,
                  ![i].api = Constructed + 1,
                  ![i].readFrom = @ \cup {ebayApiInstance.writer},
                  ![i].overwrote = @ \cup Replaced(i)]
       ELSE /\ UNCHANGED ebayApiInstance
            /\ running' = [running EXCEPT
                  ![i].ebayCalls = @ + 1,
                  ![i].api = ebayApiInstance.api,
                  ![i].readFrom = @ \cup {ebayApiInstance.writer}]
    /\ UNCHANGED <<mailboxVars, sessions, run, disk, exec, http, split>>

runLocalAgentReturns(i) ==
    /\ IsRunning(i)
    /\ running' = [running EXCEPT ![i].pc = "done"]
    /\ UNCHANGED <<mailboxVars, sessions, run, disk, exec, http,
                   ebayApiInstance, split>>

NextParallel ==
    \E i \in Parallel :
       \/ runLocalAgentStarts(i)
       \/ getEbayApi(i)
       \/ runLocalAgentReturns(i)

SpecParallel == Init /\ [][NextParallel]_vars

(***************************************************************************)
(* The claims about the host.  A step that starts a call is the            *)
(* synchronous part of handleDiscordIpc: the unprimed channelMappings is   *)
(* the list the authorization check reads.                                 *)
(***************************************************************************)
Started(s) == calls[s].pc = "idle" /\ calls'[s].pc # "idle"

IsMapped(channelId) ==
    \E i \in DOMAIN channelMappings : channelMappings[i].discordChannelId = channelId

\* The group of the first mapping of a mapped channel.
OwnerOf(channelId) ==
    LET first == CHOOSE i \in DOMAIN channelMappings :
                    /\ channelMappings[i].discordChannelId = channelId
                    /\ \A j \in 1..(i - 1) :
                          channelMappings[j].discordChannelId # channelId
    IN channelMappings[first].nanoClawGroup

WellFormedSend(data) ==
    /\ data.type = <<"discord_", "send">>
    /\ data.requestId # NoRequestId
    /\ data.channelId # NoValue
    /\ data.text # NoValue

MaySend(call) ==
    /\ IsMapped(call.data.channelId)
    /\ call.isMain \/ OwnerOf(call.data.channelId) = call.sourceGroup

\* C1: sendToChannel is invoked for a request only if, when checked, the
\* target channel has a mapping and the caller is main or the mapping's
\* group is sourceGroup; a non-main caller that is not the owner never
\* reaches it, the owner and a main caller on a mapped channel do. The send
\* is invoked in the synchronous part of the call and nowhere else.
C1_SendOnlyWhenAuthorized ==
    [][\A s \in HandlerSlots :
          /\ Started(s) =>
                /\ calls'[s].sends > 0 => MaySend(calls'[s])
                /\ (WellFormedSend(calls'[s].data) /\ MaySend(calls'[s]))
                      => calls'[s].sends = 1 /\ calls'[s].pc = "sending"
          /\ (~Started(s) /\ calls'[s].pc # "idle")
                => calls'[s].sends = calls[s].sends]_vars

C1_Witness ==
    \E s \in HandlerSlots :
       /\ calls[s].pc = "sending"
       /\ calls[s].sends = 1
       /\ ~calls[s].isMain
       /\ calls[s].sourceGroup = "g"

IsDenial(result) == result \in {UnmappedResult, UnauthorizedResult}

\* C2: a discord_send to an unmapped channel is denied for every caller,
\* main included; every denial ends in a success=false Result with a reason
\* written under the request's requestId, with no external send, and the
\* call returns true.
C2_DenialWritesFailure ==
    [][\A s \in HandlerSlots :
          /\ (Started(s) /\ WellFormedSend(calls'[s].data)
                /\ ~IsMapped(calls'[s].data.channelId))
                => /\ calls'[s].result = UnmappedResult
                   /\ calls'[s].pc = "write"
                   /\ calls'[s].sends = 0
          /\ (Started(s) /\ WellFormedSend(calls'[s].data)
                /\ IsMapped(calls'[s].data.channelId) /\ ~MaySend(calls'[s]))
                => /\ calls'[s].result = UnauthorizedResult
                   /\ calls'[s].pc = "write"
                   /\ calls'[s].sends = 0
          /\ (IsDenial(calls[s].result) /\ calls[s].pc = "writing"
                /\ calls'[s] # calls[s])
                => /\ calls'[s].pc = "returned"
                   /\ calls'[s].ret = "true"
                   /\ calls'[s].sends = 0
                   /\ ~calls'[s].result.success
                   /\ calls'[s].result.message # ""
                   /\ results'[<<calls[s].sourceGroup, calls[s].data.requestId>>]
                         = WrittenFile(calls[s].result)]_vars

C2_Witness ==
    \E s \in HandlerSlots :
       /\ calls[s].pc = "returned"
       /\ calls[s].isMain
       /\ calls[s].result = UnmappedResult
       /\ calls[s].ret = "true"
       /\ channelMappings # <<>>
       /\ results[<<calls[s].sourceGroup, calls[s].data.requestId>>]
             = WrittenFile(UnmappedResult)

\* C4: a call for a request of the discord_ family that carries a requestId
\* writes exactly one Result file before it returns, and attempts the
\* external send at most once.
C4_OneResultPerCall ==
    \A s \in HandlerSlots :
       (/\ calls[s].pc = "returned"
        /\ StartsWith(calls[s].data.type, "discord_")
        /\ calls[s].data.requestId # NoRequestId)
          => calls[s].writes = 1 /\ calls[s].sends <= 1

\* C5: for a missing type or one outside the discord_ family the call
\* returns false and changes nothing: no Result file, no send, the mapping
\* list as it was.
C5_OtherFamilyUntouched ==
    [][\A s \in HandlerSlots :
          (Started(s) /\ ~StartsWith(calls'[s].data.type, "discord_"))
             => /\ calls'[s].pc = "returned"
                /\ calls'[s].ret = "false"
                /\ calls'[s].writes = 0
                /\ calls'[s].sends = 0
                /\ ~calls'[s].looked
                /\ results' = results
                /\ channelMappings' = channelMappings]_vars

C5_Witness ==
    \E s \in HandlerSlots :
       /\ calls[s].pc = "returned"
       /\ calls[s].data.type = <<"x_", "post">>
       /\ calls[s].data.requestId # NoRequestId
       /\ calls[s].ret = "false"
       /\ calls[s].writes = 0

\* C6: a request of the discord_ family without a requestId is dropped:
\* the call returns true, writes no Result file, looks up no mapping and
\* sends nothing.
C6_NoRequestIdDropped ==
    [][\A s \in HandlerSlots :
          (Started(s) /\ StartsWith(calls'[s].data.type, "discord_")
             /\ calls'[s].data.requestId = NoRequestId)
             => /\ calls'[s].pc = "returned"
                /\ calls'[s].ret = "true"
                /\ calls'[s].writes = 0
                /\ calls'[s].sends = 0
                /\ ~calls'[s].looked
                /\ results' = results]_vars

C6_Witness ==
    \E s \in HandlerSlots :
       /\ calls[s].pc = "returned"
       /\ calls[s].data.type = <<"discord_", "send">>
       /\ calls[s].data.requestId = NoRequestId
       /\ calls[s].data.channelId = "X"
       /\ calls[s].data.text # NoValue
       /\ IsMapped("X")
       /\ calls[s].ret = "true"

\* C10 as claimed: the file {requestId}.json is written once and never a
\* second time, also when a request with that requestId is processed again.
C10_NeverWrittenAgain ==
    \A s \in HandlerSlots : ~calls[s].overwrote

\* C10 as amended: a Result is written once per call of handleDiscordIpc,
\* not once per requestId: a call never writes twice, a call that returns
\* true for a request with a requestId has written exactly once, and a later
\* call with the same requestId writes the file again.
C10_OnceWrittenPerCall ==
    \A s \in HandlerSlots :
       /\ calls[s].writes <= 1
       /\ calls[s].overwrote => calls[s].writes = 1
       /\ (calls[s].pc = "returned" /\ calls[s].ret = "true"
             /\ calls[s].data.requestId # NoRequestId) => calls[s].writes = 1

C10_Witness ==
    \E s \in HandlerSlots :
       /\ calls[s].pc = "returned"
       /\ calls[s].overwrote
       /\ calls[s].writes = 1
       /\ results[<<calls[s].sourceGroup, calls[s].data.requestId>>]
             = WrittenFile(calls[s].result)

(***************************************************************************)
(* The claims about payload identity (SpecTwin).                           *)
(***************************************************************************)
\* Same arguments and same document but for the identity the payload claims.
PayloadTwins(c, d) ==
    /\ c.sourceGroup = d.sourceGroup
    /\ c.isMain = d.isMain
    /\ [c.data EXCEPT !.groupFolder = "g", !.isMain = FALSE]
          = [d.data EXCEPT !.groupFolder = "g", !.isMain = FALSE]
    /\ <<c.data.groupFolder, c.data.isMain>> # <<d.data.groupFolder, d.data.isMain>>

\* C3: two discord requests handled against the same mapping list with the
\* same sourceGroup, isMain, channelId and text, which differ only in the
\* groupFolder and isMain of the payload, get the same decision, the same
\* external action and the same Result (up to what the external send
\* itself answers).
C3_PayloadNoninterference ==
    \A s \in HandlerSlots :
       (calls[s].pc # "idle" /\ lastReturned.pc = "returned"
          /\ PayloadTwins(calls[s], lastReturned))
          => /\ calls[s].sends = lastReturned.sends
             /\ calls[s].looked = lastReturned.looked
             /\ calls[s].pc = "returned"
                   => /\ calls[s].ret = lastReturned.ret
                      /\ calls[s].writes = lastReturned.writes
                      /\ \/ calls[s].result = lastReturned.result
                         \/ calls[s].sends = 1 /\ lastReturned.sends = 1

C3_Witness ==
    \E s \in HandlerSlots :
       /\ calls[s].pc = "returned"
       /\ lastReturned.pc = "returned"
       /\ PayloadTwins(calls[s], lastReturned)
       /\ ~calls[s].isMain
       /\ calls[s].data.isMain
       /\ calls[s].data.groupFolder # calls[s].sourceGroup
       /\ calls[s].result = UnauthorizedResult
       /\ lastReturned.result = UnauthorizedResult
       /\ ~lastReturned.data.isMain

(***************************************************************************)
(* The claims about the round trip (SpecMailbox).                          *)
(***************************************************************************)
\* C7: when the handler of a freshly enqueued request writes its Result
\* while the waiter polls, waitForResult returns exactly that Result, and
\* the file {requestId}.json is gone when it returns.
C7_RoundTrip ==
    \A a \in Agents, s \in HandlerSlots :
       (/\ tools[a].pc = "returned"
        /\ tools[a].requestId # NoRequestId
        /\ tools[a].ret # TimedOutResult
        /\ calls[s].pc \in {"writing", "returned"}
        /\ <<calls[s].sourceGroup, calls[s].data.requestId>> = WaitedFileOf(a))
          => /\ tools[a].ret = calls[s].result
             /\ ~results[WaitedFileOf(a)].present

\* The polls a waiter makes before it gives up: maxWait / 500 ms, rounded up.
MaxPolls == (DefaultMaxWait + PollInterval - 1) \div PollInterval

\* C8: a waiter that finds no file at any poll returns 'Request timed out'
\* after maxWait / 500 ms polls and every wait ends: every poll that misses
\* adds 500 ms, the waited time never passes the bound, and a poll is always
\* possible. Once
\* it has returned, its value stands and it removes nothing: a Result
\* written later stays on disk, and only a waiter that has read a file
\* removes it.
C8_TimeoutBounded ==
    /\ \A a \in Agents : (tools[a].pc = "poll") ~> (tools[a].pc = "returned")
    /\ [](\A a \in Agents :
            /\ tools[a].elapsed <= MaxPolls * PollInterval
            /\ tools[a].pc = "poll" => ENABLED waitForResultPoll(a)
            /\ (tools[a].pc = "returned" /\ tools[a].ret = TimedOutResult)
                  => tools[a].elapsed = MaxPolls * PollInterval)
    /\ [][/\ \A a \in Agents :
               /\ (tools[a].pc = "poll" /\ tools'[a] # tools[a])
                     => IF tools[a].elapsed >= DefaultMaxWait
                        THEN tools'[a] = [tools[a] EXCEPT !.pc = "returned",
                                                          !.ret = TimedOutResult]
                        ELSE IF results[WaitedFileOf(a)].present
                        THEN tools'[a].pc = "read"
                        ELSE tools'[a] = [tools[a] EXCEPT
                                            !.elapsed = @ + PollInterval]
               /\ (tools[a].pc = "returned" /\ tools'[a] # tools[a])
                     => tools'[a] = IdleTool /\ results' = results
          /\ \A f \in ResultFiles :
               (results[f].present /\ ~results'[f].present)
                  => \E a \in Agents :
                        /\ tools[a].pc = "unlink"
                        /\ WaitedFileOf(a) = f
                        /\ tools'[a].ret = tools[a].buf]_vars

C8_Witness ==
    \E a \in Agents, s \in HandlerSlots :
       /\ tools[a].pc = "returned"
       /\ tools[a].ret = TimedOutResult
       /\ tools[a].elapsed = MaxPolls * PollInterval
       /\ calls[s].pc = "returned"
       /\ <<calls[s].sourceGroup, calls[s].data.requestId>> = WaitedFileOf(a)
       /\ results[WaitedFileOf(a)] = WrittenFile(calls[s].result)

\* C9: in every state, a crash inside writeIpcFile included, a file of a
\* tasks directory whose name ends in .json holds the complete document
\* that was enqueued under it; an incomplete file has a name ending in
\* .tmp, and the document a call works on is an enqueued one.
C9_PublishedComplete ==
    /\ \A f \in DOMAIN tasks :
          /\ (tasks[f].present /\ EndsWith(f[2], ".json"))
                => /\ tasks[f].complete
                   /\ tasks[f].doc = enqueued[f[2][1]]
                   /\ tasks[f].doc # NoRequest
          /\ (tasks[f].present /\ ~tasks[f].complete)
                => EndsWith(f[2], ".tmp") /\ ~EndsWith(f[2], ".json")
    /\ \A s \in HandlerSlots :
          calls[s].pc # "idle"
             => /\ calls[s].data.requestId \in RequestIds
                /\ calls[s].data = enqueued[calls[s].data.requestId]

C9_Witness ==
    \E f \in DOMAIN tasks, g \in DOMAIN tasks :
       /\ tasks[f].present /\ ~tasks[f].complete
       /\ EndsWith(f[2], ".tmp")
       /\ tasks[g].present /\ EndsWith(g[2], ".json")
       /\ \A a \in Agents : tools[a].pc = "poll"

(***************************************************************************)
(* The claims about waitForResult.                                         *)
(***************************************************************************)
FailureOfWaiter == {TimedOutResult, ReadFailedResult}

\* C11: whenever a waitForResult call that found {requestId}.json has
\* returned, with the parsed content or with 'Failed to read result', the
\* file no longer exists.
C11_FoundFileRemoved ==
    \A a \in Agents :
       (/\ tools[a].pc = "returned"
        /\ tools[a].requestId # NoRequestId
        /\ tools[a].ret # TimedOutResult)
          => ~results[WaitedFileOf(a)].present

\* The waiter holds a Result as its value, not a failure of its own.
Delivered(w) == tools[w].pc = "returned" /\ tools[w].ret \notin FailureOfWaiter

\* C12: of two concurrent waitForResult calls for the same requestId, at
\* most one returns the written Result; when one has, the other returns
\* 'Request timed out' or 'Failed to read result', and the value delivered
\* is the Result the host's call wrote.
C12_AtMostOneDelivery ==
    \A v \in Waiters, w \in Waiters :
       (v # w /\ Delivered(v))
          => /\ tools[w].pc = "returned" => tools[w].ret \in FailureOfWaiter
             /\ \/ \E s \in HandlerSlots : tools[v].ret = calls[s].result
                \/ tools[v].ret = lastReturned.result

C12_Witness ==
    /\ Delivered("w1")
    /\ tools["w2"].pc = "returned"
    /\ tools["w2"].ret = ReadFailedResult
    /\ tools["w2"].buf = tools["w1"].ret
    /\ ~results[<<"g", 1>>].present

(***************************************************************************)
(* The claims about a host that dies inside a call (SpecCrash).            *)
(***************************************************************************)
\* The call that died had sent and had not come to writeResult.
DiedAfterSend ==
    /\ lastReturned.pc = "write"
    /\ lastReturned.sends = 1
    /\ lastReturned.result = SentResult

\* C13: at-most-once execution is not guaranteed. A call that dies after
\* the external send and before writeResult leaves no Result, so its waiter
\* returns 'Request timed out'; handleDiscordIpc keeps no record of what was
\* sent, so the same send submitted again under a new requestId is sent
\* again whenever the caller may send to the channel.
C13_NoExecutionRecord ==
    /\ [](DiedAfterSend =>
            /\ ~results[<<lastReturned.sourceGroup,
                          lastReturned.data.requestId>>].present
            /\ \A a \in Invocations :
                  (tools[a].pc = "returned"
                     /\ tools[a].requestId = lastReturned.data.requestId)
                     => tools[a].ret = TimedOutResult)
    /\ [][\A s \in HandlerSlots :
            (/\ Started(s)
             /\ DiedAfterSend
             /\ calls'[s].data.type = lastReturned.data.type
             /\ calls'[s].data.channelId = lastReturned.data.channelId
             /\ calls'[s].data.text = lastReturned.data.text
             /\ MaySend(calls'[s]))
               => calls'[s].sends = 1 /\ calls'[s].pc = "sending"]_vars

C13_Witness ==
    /\ DiedAfterSend
    /\ lastReturned.data.requestId = tools["t1"].requestId
    /\ tools["t1"].pc = "returned"
    /\ tools["t1"].ret = TimedOutResult
    /\ tools["t2"].requestId # tools["t1"].requestId
    /\ tools["t2"].channelId = tools["t1"].channelId
    /\ tools["t2"].text = tools["t1"].text
    /\ \E s \in HandlerSlots :
          /\ calls[s].data.requestId = tools["t2"].requestId
          /\ calls[s].data.channelId = lastReturned.data.channelId
          /\ calls[s].sends = 1
          /\ calls[s].pc = "write"
          /\ calls[s].result = SentResult

(***************************************************************************)
(* The claims about the tool loop (SpecLoop).                              *)
(***************************************************************************)
\* C14: no invocation makes more than 10 tool-enabled completion calls; an
\* invocation whose tool-enabled calls were all answered with tool calls,
\* with no guardrail tripped, has made exactly 10 of them and then exactly
\* one call with an empty tool set, and when that call has answered, the
\* session is persisted and the status is success with the call's text or
\* 'I reached my processing limit. Please try again.'.
C14_BudgetExit ==
    /\ run.toolEnabledCalls <= 10
    /\ run.pc = "completion"
          => run.iterations = run.toolEnabledCalls /\ run.finalCalls = 0
    /\ (/\ run.pc \in {"final", "done"}
        /\ run.toolResponses = run.toolEnabledCalls
        /\ run.blocked = <<>>)
          => /\ run.toolEnabledCalls = 10
             /\ run.finalCalls = 1
             /\ run.exit = "budget"
             /\ (run.pc = "done" /\ run.finalAnswers = 1)
                   => /\ run.status = "success"
                      /\ run.saves = 1
                      /\ run.result \in {"ok",
                            "I reached my processing limit. Please try again."}
                      /\ sessions[run.sessionId].present
                      /\ <<SystemMessage>> \o sessions[run.sessionId].messages
                            = run.messages

C14_Witness ==
    /\ run.pc = "done"
    /\ run.exit = "budget"
    /\ run.toolEnabledCalls = 10
    /\ run.finalCalls = 1
    /\ run.status = "success"
    /\ run.result = "I reached my processing limit. Please try again."
    /\ run.executed["constructor"] = 0
    /\ run.blocked = <<>>
    /\ run.saves = 1

\* The cap the loop is to hold a tool name to.
CapOf(name) == IF name = "send_message" THEN 2 ELSE 3

\* C15: in every invocation and for every tool name, executeTool is invoked
\* at most 3 times for that name, at most 2 times for send_message.
C15_PerToolCap ==
    \A name \in ToolNames : run.executed[name] <= CapOf(name)

\* C16: once a tool name has been attempted more than its cap, the call
\* beyond the cap was not executed and was answered with a synthetic tool
\* message, and with the calls of that assistant message processed the
\* invocation is in its one final call with an empty tool set or past it,
\* with no further tool-enabled call; its answer persists the session and
\* gives status success.
C16_GuardrailExit ==
    \A name \in ToolNames :
       run.attempts[name] > CapOf(name)
          => /\ run.executed[name] <= CapOf(name)
             /\ Len(run.blocked) >= 1
             /\ run.pc \in {"final", "done"}
             /\ run.exit = "guardrail"
             /\ run.finalCalls = 1
             /\ (run.pc = "done" /\ run.finalAnswers = 1)
                   => run.status = "success" /\ run.saves = 1

(***************************************************************************)
(* The claims about the stored session (SpecSession).                      *)
(***************************************************************************)
\* The last n elements of a sequence, in their order.
LastOf(stored, n) == [i \in 1..n |-> stored[Len(stored) - n + i]]

\* C17: the messages given to the first completion call are the system
\* message, the last min(N, 20) of the N stored messages in stored order,
\* and the new user message; loading leaves the stored file as it was.
C17_ReplayWindow ==
    run.pc # "idle" =>
       LET N == Len(run.loaded)
           n == IF N < 20 THEN N ELSE 20
       IN /\ run.first = <<[role |-> "system"]>> \o LastOf(run.loaded, n)
                            \o <<[role |-> "user", content |-> run.prompt]>>
          /\ Len(run.first) = n + 2
          /\ run.saves = 0
                => sessions[run.sessionId] =
                      IF N = 0 THEN NoSession ELSE SessionFile(run.loaded)

C17_Witness ==
    /\ run.pc = "completion"
    /\ run.iterations = 1
    /\ Len(run.loaded) = 21
    /\ Len(run.first) = 22
    /\ run.first[2] = StoredMessage(2)
    /\ run.first[21] = StoredMessage(21)
    /\ sessions[run.sessionId].messages[1] = StoredMessage(1)

\* C18: after a successful invocation the persisted session holds all the
\* messages that were stored before it, followed by those of this
\* invocation.
C18_HistoryAccumulates ==
    (run.pc = "done" /\ run.status = "success")
       => LET stored == sessions[run.sessionId].messages
              N == Len(run.loaded)
          IN /\ Len(stored) > N
             /\ SubSeq(stored, 1, N) = run.loaded

(***************************************************************************)
(* The claims about the file tools (SpecFiles).                            *)
(***************************************************************************)
\* A path string that is empty, absolute, or contains '..'.
BadPath(arg) ==
    /\ arg.type = "string"
    /\ \/ arg.chars = <<>>
       \/ arg.chars[1] = "/"
       \/ \E i \in 1..(Len(arg.chars) - 1) :
             arg.chars[i] = "." /\ arg.chars[i + 1] = "."

PathErrors ==
    {"Error: Path is required",
     "Error: Absolute paths are not allowed",
     "Error: Path traversal (..) is not allowed",
     "Error: Path resolves outside the group directory"}

\* The path lies in the directory of the group or is that directory.
InGroupDir(path, groupFolder) ==
    /\ Len(path) >= 2
    /\ path[1] = <<"g", "r", "o", "u", "p", "s">>
    /\ path[2] = <<groupFolder>>

\* C19: read_file and write_file with a path that is empty, absolute or
\* contains '..' return an error string and call nothing of the file
\* system, and the disk is as before; a path that passes validateGroupPath
\* resolves to the caller's group directory or beneath it, and it is there
\* that the call tests, reads or writes.
C19_PathContainment ==
    /\ [](exec.pc = "returned" =>
            /\ BadPath(exec.path)
                  => /\ ~exec.validated.ok
                     /\ exec.ret.text \in PathErrors
                     /\ exec.fsOps = <<>>
            /\ exec.validated.ok
                  => /\ InGroupDir(exec.validated.resolved, exec.groupFolder)
                     /\ \A i \in DOMAIN exec.fsOps :
                           exec.fsOps[i].op # "mkdirSync"
                              => exec.fsOps[i].path = exec.validated.resolved)
    /\ [][(exec.pc = "idle" /\ exec'.pc = "returned")
            => /\ ~exec'.validated.ok => disk' = disk
               /\ \A f \in disk'.files \ disk.files :
                     InGroupDir(f[1], exec'.groupFolder)]_vars

C19_Witness ==
    /\ exec.pc = "returned"
    /\ exec.name = "write_file"
    /\ exec.groupFolder = "g"
    /\ exec.path = StringArg(<<".", ".", "/", "h", "/", "a">>)
    /\ exec.ret.text = "Error: Path traversal (..) is not allowed"
    /\ exec.fsOps = <<>>
    /\ disk.files = {<<GroupDirOf("g") \o << <<"a">>, <<"b">> >>, 1>>}

\* The UTF-8 bytes of the content a write_file call was given.
BytesOf(content) ==
    IF content.type = "undefined" THEN 0 ELSE content.ascii + 2 * content.wide

\* Nothing on disk keeps the path from being written as a file.
Writable(path) ==
    /\ path \notin disk.dirs
    /\ \A n \in 0..(Len(path) - 1) : ~IsFile(disk, SubSeq(path, 1, n))

CompleteLists ==
    {<<>>} \cup {file.mappings : file \in {f \in ChannelFiles : f.parses}}

\* The first element of a list that satisfies a test, as a lookup gives it.
FirstOf(list, Test(_)) ==
    IF \E i \in DOMAIN list : Test(list[i])
    THEN <<list[CHOOSE i \in DOMAIN list :
                   Test(list[i]) /\ \A j \in 1..(i - 1) : ~Test(list[j])]>>
    ELSE <<>>

\* C23: the mapping list is at every moment the complete list of one load,
\* so a lookup by channel or by group, whenever it runs, is evaluated
\* against a complete list from before or after a reload; the list changes
\* only in initDiscordClient and reloadChannelMappings, as a whole, a call
\* of handleDiscordIpc decides on the list as it is when the call starts,
\* and a missing mapping file gives the empty list.
C23_ReloadAtomic ==
    /\ [](/\ channelMappings \in CompleteLists
          /\ \A channelId \in Channels :
                getMappingForChannel(channelId) =
                   FirstOf(channelMappings,
                           LAMBDA m : m.discordChannelId = channelId)
          /\ \A groupFolder \in Groups :
                getMappingForGroup(groupFolder) =
                   FirstOf(channelMappings,
                           LAMBDA m : m.nanoClawGroup = groupFolder)
          /\ \A file \in ChannelFiles :
                ~file.exists => loadChannelMappings(file) = <<>>)
    /\ [][/\ channelMappings' # channelMappings
               => /\ channelMappings' \in CompleteLists
                  /\ calls' = calls /\ results' = results
          /\ \A s \in HandlerSlots :
               (Started(s) /\ calls'[s].looked)
                  => /\ channelMappings' = channelMappings
                     /\ calls'[s].sends = 1 <=> MaySend(calls'[s])]_vars

C23_Witness ==
    /\ channelMappings = <<Mapping("X", "h", FALSE), Mapping("X", "g", FALSE)>>
    /\ getMappingForGroup("g") = <<Mapping("X", "g", FALSE)>>
    /\ \E s \in HandlerSlots :
          /\ calls[s].pc = "write"
          /\ calls[s].sends = 1
          /\ calls[s].sourceGroup = "g"
          /\ calls[s].data.channelId = "Y"

(***************************************************************************)
(* The claims about the execution of tool calls (SpecExecute).             *)
(***************************************************************************)
\* The places of the assistant messages of this invocation that ask for
\* tool calls.
Asking ==
    {p \in DOMAIN run.messages :
        /\ run.messages[p].role = "assistant"
        /\ p > Len(run.first)
        /\ run.messages[p].tool_calls # <<>>}

ToolMessagesAt == {p \in DOMAIN run.messages : run.messages[p].role = "tool"}

\* C28: an assistant message with k tool calls is followed by exactly k tool
\* messages, the i-th with the id of the i-th call, be the call executed,
\* thrown from, given arguments that do not parse, or blocked; and
\* executeTool is invoked at most once for a call, never for a blocked one.
C28_OneMessagePerCall ==
    /\ \A p \in Asking :
          LET ids == run.messages[p].tool_calls
              k == Len(ids)
          IN /\ p + k <= Len(run.messages)
             /\ \A i \in 1..k :
                   /\ run.messages[p + i].role = "tool"
                   /\ run.messages[p + i].tool_call_id = ids[i]
             /\ p + k < Len(run.messages)
                   => run.messages[p + k + 1].role # "tool"
    /\ \A q \in ToolMessagesAt :
          q > Len(run.first) =>
             \E p \in Asking : p < q /\ q <= p + Len(run.messages[p].tool_calls)
    /\ \A i, j \in DOMAIN run.invoked :
          run.invoked[i].id = run.invoked[j].id => i = j
    /\ \A i \in DOMAIN run.invoked, j \in DOMAIN run.blocked :
          run.invoked[i].id # run.blocked[j]
    /\ \A p \in Asking : \A i \in DOMAIN run.messages[p].tool_calls :
          \/ \E j \in DOMAIN run.invoked :
                run.invoked[j].id = run.messages[p].tool_calls[i]
          \/ \E j \in DOMAIN run.blocked :
                run.blocked[j] = run.messages[p].tool_calls[i]

C28_Witness ==
    /\ run.pc = "final"
    /\ run.iterations = 2
    /\ Len(run.messages[Len(run.first) + 3].tool_calls) = 5
    /\ run.blocked = <<<<2, 4>>>>
    /\ Len(run.invoked) = 5
    /\ run.invoked[1].throws
    /\ run.invoked[5].throws
    /\ Len(run.messages) = Len(run.first) + 8

\* The result of the call a tool message answers, as executeTool gave it.
AnsweredAt(q) ==
    CHOOSE call \in {run.invoked[j] : j \in DOMAIN run.invoked} :
       call.id = run.messages[q].tool_call_id

ExecutedAt ==
    {q \in ToolMessagesAt :
        /\ q > Len(run.first)
        /\ \E j \in DOMAIN run.invoked :
              run.invoked[j].id = run.messages[q].tool_call_id}

\* C30: the content of a tool message of an executed call is the result
\* when the result has at most 1200 characters, and else its first 1200
\* characters and then '\n... (truncated)'; no such content is longer than
\* 1200 characters and the marker.
C30_Truncation ==
    \A q \in ExecutedAt :
       LET content == run.messages[q].content
           call == AnsweredAt(q)
           resultLength == IF call.throws THEN call.length + 12
                           ELSE call.length
       IN /\ content.length = resultLength
          /\ resultLength <= 1200 => content.kept = resultLength
                                     /\ ~content.marker
          /\ resultLength > 1200 => content.kept = 1200 /\ content.marker
          /\ ContentLength(content) <= 1200 + 16

C30_Witness ==
    /\ run.pc = "completion"
    /\ run.iterations = 4
    /\ Len(run.invoked) = 3
    /\ run.invoked[1].length = 1200 /\ ~run.invoked[1].throws
    /\ run.invoked[2].length = 1201 /\ ~run.invoked[2].throws
    /\ run.invoked[3].length = 1189 /\ run.invoked[3].throws
    /\ run.messages[Len(run.first) + 2].content.kept = 1200
    /\ ~run.messages[Len(run.first) + 2].content.marker
    /\ run.messages[Len(run.first) + 4].content.marker
    /\ ContentLength(run.messages[Len(run.first) + 6].content) = 1216

(***************************************************************************)
(* The claims about the ends of an invocation (SpecSession).               *)
(***************************************************************************)
\* The stored session as the invocation found it.
AsLoaded == IF run.loaded = <<>> THEN NoSession ELSE SessionFile(run.loaded)

\* The last completion call failed: callOllama threw, or a tool-enabled
\* response had no choices.
CompletionFailed ==
    \/ run.response = "throw"
    \/ run.response = "empty" /\ run.finalCalls = 0

\* C25: when a completion call fails, the invocation returns status error
\* with result null, has not saved, and the stored session is what it was
\* before the invocation; the step that fails writes no session file.
C25_FailureLeavesSession ==
    /\ []((run.pc = "done" /\ CompletionFailed)
             => /\ run.status = "error"
                /\ run.result = "null"
                /\ run.saves = 0
                /\ sessions[run.sessionId] = AsLoaded)
    /\ [][(run.pc \in {"completion", "final"} /\ run'.pc = "done"
              /\ run'.response \in {"throw", "empty"}
              /\ (run'.response = "empty" => run.pc = "completion"))
             => sessions' = sessions /\ run'.status = "error"]_vars

C25_Witness ==
    /\ run.pc = "done"
    /\ run.status = "error"
    /\ run.response = "empty"
    /\ run.n = 2
    /\ run.toolResponses = 2
    /\ Len(run.loaded) = 20
    /\ sessions[run.sessionId] = SessionFile(run.loaded)
    /\ Len(run.messages) > Len(run.first)

\* C27: a tool-enabled response with no tool calls ends the invocation: its
\* message is the last of the messages and of the saved session, the status
\* is success and the result the content, null when the content is empty;
\* no completion call and no tool execution comes after it.
C27_DoneBranch ==
    /\ []((run.pc # "idle" /\ run.exit = "text")
             => LET last == run.messages[Len(run.messages)]
                    saved == sessions[run.sessionId].messages
                IN /\ run.pc = "done"
                   /\ run.status = "success"
                   /\ last.role = "assistant"
                   /\ last.tool_calls = <<>>
                   /\ run.result = IF last.content = "" THEN "null"
                                   ELSE last.content
                   /\ run.saves = 1
                   /\ saved # <<>>
                   /\ saved[Len(saved)] = last
                   /\ run.finalCalls = 0)
    /\ [][/\ (run.pc = "completion" /\ run'.response = "text")
               => /\ run'.pc = "done" /\ run'.exit = "text"
                  /\ Len(run'.messages) = Len(run.messages) + 1
                  /\ run'.invoked = run.invoked
          /\ (run.pc = "done" /\ run.exit = "text")
               => run' = run \/ run' = [IdleRun EXCEPT !.n = run.n]]_vars

C27_Witness ==
    /\ run.pc = "done"
    /\ run.exit = "text"
    /\ run.result = "ok"
    /\ run.toolResponses = 2
    /\ Len(run.invoked) = 2
    /\ Len(run.loaded) = 21
    /\ Len(sessions[run.sessionId].messages) = 26

\* C29: no stored session holds a message with role system, and every save
\* stores the messages of the invocation without the first, which is the
\* system message.
C29_NoSystemMessageStored ==
    /\ [](\A id \in SessionIds :
             \A i \in DOMAIN sessions[id].messages :
                sessions[id].messages[i].role # "system")
    /\ [][sessions' # sessions
             => /\ run'.saves = run.saves + 1
                /\ run'.messages[1].role = "system"
                /\ <<run'.messages[1]>> \o sessions'[run.sessionId].messages
                      = run'.messages
                /\ \A id \in SessionIds \ {run.sessionId} :
                      sessions'[id] = sessions[id]]_vars

C29_Witness ==
    /\ run.pc = "done"
    /\ run.n = 2
    /\ run.saves = 1
    /\ run.exit = "guardrail"
    /\ Len(run.loaded) = 3
    /\ run.loaded[1].role = "user"
    /\ Len(sessions[run.sessionId].messages) > 4
    /\ run.messages[1].role = "system"

(***************************************************************************)
(* The claims about the local agent's mailbox tools (SpecTools).           *)
(***************************************************************************)
\* A call of the tool returns in this step.
ToolReturns(name) ==
    exec.pc = "idle" /\ exec'.pc = "returned" /\ exec'.name = name

\* The task files that appear in this step.
NewTasks == {f \in DOMAIN tasks : tasks'[f] # tasks[f]}

\* C21: register_group and x_post called by a caller that is not main
\* return the refusal and leave the tasks directory as it is, whatever the
\* host's state; called by main they put exactly one complete request file
\* of their type into the tasks directory of the group.
C21_LocalPrivilegeCheck ==
    [][\A name \in {"register_group", "x_post"} :
          ToolReturns(name) =>
             IF ~exec'.isMain
             THEN /\ tasks' = tasks
                  /\ exec'.fsOps = <<>>
                  /\ exec'.ret.text \in
                        {"Only the main group can register new groups.",
                         "Only the main group can post to X."}
             ELSE /\ \E f \in DOMAIN tasks :
                        /\ NewTasks = {f}
                        /\ ~tasks[f].present
                        /\ tasks'[f].present /\ tasks'[f].complete
                        /\ f[1] = exec'.groupFolder
                        /\ EndsWith(f[2], ".json")
                        /\ tasks'[f].doc.type =
                              (IF name = "x_post" THEN <<"x_", "post">>
                               ELSE <<"register_", "group">>)
                  /\ exec'.ret.text \notin
                        {"Only the main group can register new groups.",
                         "Only the main group can post to X."}]_vars

C21_Witness ==
    /\ exec.pc = "returned"
    /\ exec.n = 2
    /\ exec.name = "x_post"
    /\ ~exec.isMain
    /\ exec.groupFolder = "h"
    /\ exec.ret.text = "Only the main group can post to X."
    /\ tasks[<<"g", FilePath(1)>>].complete
    /\ tasks[<<"g", FilePath(1)>>].doc.type = <<"register_", "group">>
    /\ \A name \in TaskNames : ~tasks[<<"h", name>>].present
    /\ issued = 1

\* The request files of a group that hold a discord_send request with a
\* requestId.
SendRequestsOf(groupFolder) ==
    {f \in DOMAIN tasks :
        /\ f[1] = groupFolder
        /\ tasks[f].complete
        /\ tasks[f].doc.type = DiscordSend
        /\ "requestId" \in DOMAIN tasks[f].doc}

\* C22: a discord_send invocation that has returned has enqueued a request
\* with a requestId and has looked for the Result of that requestId before
\* it returned.
C22_SendIsRoundTrip ==
    (exec.pc = "returned" /\ exec.name = "discord_send")
       => /\ SendRequestsOf(exec.groupFolder) # {}
          /\ \E i \in DOMAIN exec.fsOps : exec.fsOps[i].op = "existsSync"

(***************************************************************************)
(* The claims about the completion call (SpecRetry).                       *)
(***************************************************************************)
Ended == http.pc \in {"returned", "thrown"}

LastAnswer == http.answers[Len(http.answers)]

\* At most 3 fetches; a fetch after the first only after a 429 or 413, and
\* once the call has ended no fetch is outstanding.
RetryBound ==
    /\ http.fetches <= 3
    /\ Len(http.answers) <= http.fetches
    /\ \A k \in 1..(http.fetches - 1) : http.answers[k].status \in {429, 413}
    /\ Len(http.waited) <= 2
    /\ Ended => Len(http.answers) = http.fetches

\* C26 as stated: with the retry bound, every answer that is not OK and is
\* not retried ends the call with an error.
C26_EveryFailureThrows ==
    /\ RetryBound
    /\ (Ended /\ LastAnswer.status # 200) => http.pc = "thrown"

\* C26: at most 3 attempts, a further one only after a 429 or 413 on the
\* first or second; a network error, a 429 or 413 on the third attempt and
\* any other status that is not OK end the call with an error and without
\* another attempt, except a 400 with 'tool_use_failed' whose
\* failed_generation yields a tool call or a text, which ends the call with
\* the response made from it.
C26_RetryBound ==
    /\ RetryBound
    /\ (Ended /\ LastAnswer.status # 200)
          => IF /\ LastAnswer.status = 400
                /\ LastAnswer.toolUseFailed /\ LastAnswer.parses
                /\ (LastAnswer.fnMatch \/ LastAnswer.textMatch)
             THEN http.pc = "returned"
                  /\ http.outcome \in {"tool call", "text"}
             ELSE http.pc = "thrown"
    /\ (Ended /\ LastAnswer.status \in {429, 413}) => http.fetches = 3

C26_Witness ==
    /\ http.pc = "thrown"
    /\ http.n = 2
    /\ http.fetches = 3
    /\ http.answers[1].status = 429
    /\ http.answers[2].status = 413
    /\ http.answers[3].status = 429
    /\ http.waited = <<21000, 18000>>

(***************************************************************************)
(* The claims about invocations side by side (SpecParallel).               *)
(***************************************************************************)
\* C24: no invocation reads what the other assigned to a variable of the
\* module, and none replaces what the other assigned while that one runs.
C24_NoSharedVariable ==
    \A i \in Parallel :
       /\ running[i].readFrom \subseteq {"", i}
       /\ running[i].overwrote = {}

(***************************************************************************)
(* The claims about what follows a blocked call (SpecLoop).                *)
(***************************************************************************)
\* The order of the calls of an invocation: by iteration, then by place in
\* the assistant message.
Precedes(id, other) ==
    id[1] < other[1] \/ (id[1] = other[1] /\ id[2] < other[2])

LastAssistant(messages) ==
    messages[CHOOSE p \in DOMAIN messages :
                /\ messages[p].role = "assistant"
                /\ \A q \in (p + 1)..Len(messages) :
                      messages[q].role # "assistant"]

\* C33: after a successful exit the result is the content of the last
\* assistant message of the stored session (null for an empty content).
C33_AnswerIsStored ==
    (run.pc = "done" /\ run.status = "success")
       => LET answer == LastAssistant(sessions[run.sessionId].messages)
          IN run.result = IF answer.content = "" THEN "null"
                          ELSE answer.content

(***************************************************************************)
(* The claims about failing tool calls (SpecExecute).                      *)
(***************************************************************************)
\* C31: a call whose arguments do not parse is executed with empty
\* arguments, a call whose tool throws is answered with a message that
\* begins 'Tool error: ', and neither ends the invocation: every call is
\* executed or blocked, and a response with tool calls is followed by the
\* next completion call, by the final call when the guardrail tripped or
\* the budget is used up, never by status error.
C31_ToolFailuresNotFatal ==
    /\ [](/\ \A j \in DOMAIN run.invoked :
                run.invoked[j].args =
                   (IF run.invoked[j].arguments THEN "parsed" ELSE "empty")
          /\ \A q \in ExecutedAt :
                AnsweredAt(q).throws
                   <=> run.messages[q].content.text = "Tool error"
          /\ \A p \in Asking : \A i \in DOMAIN run.messages[p].tool_calls :
                \/ \E j \in DOMAIN run.invoked :
                      run.invoked[j].id = run.messages[p].tool_calls[i]
                \/ \E j \in DOMAIN run.blocked :
                      run.blocked[j] = run.messages[p].tool_calls[i]
          /\ (run.status = "error" => run.response \in {"throw", "empty"}))
    /\ [][(run.pc = "completion" /\ run'.response = "tools"
              /\ run'.toolResponses = run.toolResponses + 1)
             => /\ run'.pc \in {"completion", "final"}
                /\ run'.status # "error"
                /\ (~run'.loopAborted /\ run.iterations < 10)
                      => /\ run'.pc = "completion"
                         /\ run'.iterations = run.iterations + 1]_vars

C31_Witness ==
    /\ run.pc = "completion"
    /\ run.iterations = 3
    /\ Len(run.invoked) = 2
    /\ run.invoked[1].throws
    /\ ~run.invoked[2].arguments
    /\ run.invoked[2].args = "empty"
    /\ run.messages[Len(run.first) + 2].content.text = "Tool error"
    /\ run.status = ""

(***************************************************************************)
(* The claims about the Result file and its waiter.                        *)
(***************************************************************************)
\* C36 (SpecMailbox): a waiter that is about to read {requestId}.json finds
\* the complete Result in it, and no call returns 'Failed to read result'.
C36_NeverPartialResult ==
    \A a \in Agents :
       /\ (tools[a].pc = "read" /\ results[WaitedFileOf(a)].present)
             => results[WaitedFileOf(a)].complete
       /\ tools[a].pc = "returned" => tools[a].ret # ReadFailedResult

\* The complete Result of the waiter's request is on disk while the waiter
\* sleeps and the time waited is below maxWait.
PublishedInTime(a) ==
    /\ tools[a].pc = "sleep"
    /\ tools[a].elapsed < DefaultMaxWait
    /\ results[WaitedFileOf(a)].present
    /\ results[WaitedFileOf(a)].complete

\* C39 (SpecPolling): a Result published in time, also during the last
\* sleep, is returned and not timed out: when a sleep ends with the Result
\* on disk, the loop goes on to check for the file, which is the only other
\* way out than 'Request timed out'.
C39_PublishedInTimeIsReturned ==
    [][\A a \in Agents :
          (PublishedInTime(a) /\ tools'[a].pc = "poll")
             => KeepPolling(tools'[a].elapsed, DefaultMaxWait)]_vars

(***************************************************************************)
(* The claims about what the local agent's tools enqueue (SpecTools).      *)
(***************************************************************************)
\* C37: every discord_send request in a tasks directory carries a
\* requestId.
C37_SendRequestsCarryRequestId ==
    \A f \in DOMAIN tasks :
       (tasks[f].complete /\ tasks[f].doc.type = DiscordSend)
          => "requestId" \in DOMAIN tasks[f].doc

\* C38: a call of executeTool with a name that is not among the tools of
\* getToolDefinitions returns 'Unknown tool' and has called nothing of fs.
C38_OnlySchemaToolsAct ==
    (exec.pc = "returned" /\ exec.name \notin getToolDefinitions)
       => /\ exec.ret.text = "Unknown tool: {name}"
          /\ exec.fsOps = <<>>

(***************************************************************************)
(* host.js: splitMessage, the chunks of a Discord message.                 *)
(***************************************************************************)
\* splitMessage(text, maxLength = 2000)
DefaultMaxLength == 2000

\* How many runs of equal characters an input text has at most.
MaxPieces == 3

\* What trimStart removes, of the characters of the model.
WhiteSpace == {" ", "\n"}

RECURSIVE TextLength(_)
TextLength(text) ==
    IF text = <<>> THEN 0 ELSE Head(text).n + TextLength(Tail(text))

\* The last index of ch at or before fromIndex, -1 when there is none; start
\* is the index of the first character of text.
RECURSIVE lastIndexOfAt(_, _, _, _)
lastIndexOfAt(text, ch, fromIndex, start) ==
    IF text = <<>> \/ start > fromIndex
    THEN -1
    ELSE LET later == lastIndexOfAt(Tail(text), ch, fromIndex,
                                    start + Head(text).n)
         IN  IF later # -1
             THEN later
             ELSE IF Head(text).ch = ch
                  THEN Min(start + Head(text).n - 1, fromIndex)
                  ELSE -1

lastIndexOf(text, ch, fromIndex) == lastIndexOfAt(text, ch, fromIndex, 0)

\* remaining.slice(0, end)
RECURSIVE SliceTo(_, _)
SliceTo(text, end) ==
    IF text = <<>> \/ end <= 0
    THEN <<>>
    ELSE IF Head(text).n <= end
         THEN <<Head(text)>> \o SliceTo(Tail(text), end - Head(text).n)
         ELSE <<Run(Head(text).ch, end)>>

\* remaining.slice(begin)
RECURSIVE SliceFrom(_, _)
SliceFrom(text, begin) ==
    IF text = <<>> \/ begin <= 0
    THEN text
    ELSE IF Head(text).n <= begin
         THEN SliceFrom(Tail(text), begin - Head(text).n)
         ELSE <<Run(Head(text).ch, Head(text).n - begin)>> \o Tail(text)

RECURSIVE trimStart(_)
trimStart(text) ==
    IF text = <<>>
    THEN <<>>
    ELSE IF Head(text).ch \in WhiteSpace THEN trimStart(Tail(text)) ELSE text

\* A slip: any line break or blank that is found is taken, however early.
TooEarly_OnlyMissing(splitIndex, maxLength) == splitIndex = -1

\* splitIndex === -1 || splitIndex < maxLength / 2
TooEarly(splitIndex, maxLength) ==
    splitIndex = -1 \/ 2 * splitIndex < maxLength

\* Where one pass of the loop cuts: at the last line break, else at the last
\* blank, else at maxLength.
SplitIndex(remaining, maxLength) ==
    LET atNewline == lastIndexOf(remaining, "\n", maxLength)
        atBlank == IF TooEarly(atNewline, maxLength)
                   THEN lastIndexOf(remaining, " ", maxLength)
                   ELSE atNewline
    IN  IF TooEarly(atBlank, maxLength) THEN maxLength ELSE atBlank

\* The texts given to splitMessage: up to MaxPieces runs of letters, blanks
\* and line breaks; the letters in lengths around maxLength / 2 and
\* maxLength, the white space single or maxLength / 2 long.
SplitCounts ==
    {1, DefaultMaxLength \div 2 - 1, DefaultMaxLength \div 2, DefaultMaxLength}

SplitRuns ==
    {Run("a", n) : n \in SplitCounts}
        \cup {Run(ch, n) : ch \in WhiteSpace, n \in {1, DefaultMaxLength \div 2}}

SplitTexts == UNION {[1..k -> SplitRuns] : k \in 0..MaxPieces}

InitSplit ==
    /\ channelMappings = <<>>
    /\ calls = [s \in HandlerSlots |-> IdleCall]
    /\ results = [f \in ResultFiles |-> NoFile]
    /\ lastReturned = IdleCall
    /\ tasks = [f \in Groups \X TaskNames |-> NoTask]
    /\ tools = [a \in Agents |-> IdleTool]
    /\ issued = 0
    /\ enqueued = [i \in RequestIds |-> NoRequest]
    /\ sessions = [id \in SessionIds |-> NoSession]
    /\ run = IdleRun
    /\ disk = EmptyDisk
    /\ exec = IdleExec
    /\ http = IdleHttp
    /\ ebayApiInstance = NoInstance
    /\ running = [i \in Parallel |-> IdleInvocation]
    /\ \E text \in SplitTexts :
           split = [IdleSplit EXCEPT !.pc = "called", !.text = text]

\* if (text.length <= maxLength) return [text]; else the loop starts.
splitMessageEnters ==
    /\ split.pc = "called"
    /\ split' = IF TextLength(split.text) <= DefaultMaxLength
                THEN [split EXCEPT !.pc = "returned",
                                   !.chunks = <<split.text>>]
                ELSE [split EXCEPT !.pc = "loop", !.remaining = split.text]
    /\ UNCHANGED <<mailboxVars, sessions, run, disk, exec, http,
                   ebayApiInstance, running>>

\* One pass of while (remaining.length > 0); removed is the history of how
\* many characters each cutting pass took from remaining.
splitMessagePass ==
    /\ split.pc = "loop"
    /\ LET remaining == split.remaining
           splitIndex == SplitIndex(remaining, DefaultMaxLength)
           rest == trimStart(SliceFrom(remaining, splitIndex))
       IN  split' =
               IF TextLength(remaining) = 0
               THEN [split EXCEPT !.pc = "returned"]
               ELSE IF TextLength(remaining) <= DefaultMaxLength
               THEN [split EXCEPT !.pc = "returned",
                                  !.chunks = Append(@, remaining)]
               ELSE [split EXCEPT
                        !.chunks = Append(@, SliceTo(remaining, splitIndex)),
                        !.remaining = rest,
                        !.removed = Append(@, TextLength(remaining)
                                              - TextLength(rest))]
    /\ UNCHANGED <<mailboxVars, sessions, run, disk, exec, http,
                   ebayApiInstance, running>>

NextSplit ==
    \/ splitMessageEnters
    \/ splitMessagePass

SpecSplit == InitSplit /\ [][NextSplit]_vars

\* The function runs to its end: no other code is interleaved with it.
SpecSplitFair == SpecSplit /\ WF_vars(NextSplit)

\* C32: splitMessage terminates for every text; for a non-empty text every
\* chunk has between 1 and 2000 characters; a text of at most 2000 characters
\* is returned unchanged as the only chunk; every cutting pass of the loop
\* takes at least 1000 characters from the remaining text.
C32_SplitMessage ==
    /\ <>(split.pc = "returned")
    /\ [](split.pc = "returned" =>
            /\ TextLength(split.text) > 0 =>
                   \A k \in 1..Len(split.chunks) :
                       /\ TextLength(split.chunks[k]) >= 1
                       /\ TextLength(split.chunks[k]) <= DefaultMaxLength
            /\ TextLength(split.text) <= DefaultMaxLength =>
                   split.chunks = <<split.text>>)
    /\ [](\A k \in 1..Len(split.removed) :
              2 * split.removed[k] >= DefaultMaxLength)

\* A text longer than 2000 characters was cut at a line break or blank before
\* index 2000, and the white space after the cut was trimmed away.
C32_Witness ==
    /\ split.pc = "returned"
    /\ Len(split.chunks) >= 2
    /\ TextLength(split.chunks[1]) < DefaultMaxLength
    /\ split.removed[1] > TextLength(split.chunks[1])

(***************************************************************************)
(* An invocation that continues a session which earlier invocations left:  *)
(* each of them stored its user message and its answer, and between them,  *)
(* when it called a tool, the assistant message with the call and the tool *)
(* message with the result.                                                *)
(***************************************************************************)
\* How many earlier invocations the stored session is from at most.
MaxTurns == 6

\* What the t-th earlier invocation stored; its tool call has the id <<0, t>>.
HistoryTurn(kind, t) ==
    IF kind = "tools"
    THEN <<UserMessage("p"),
           AssistantMessage("", <<[id |-> <<0, t>>]>>),
           ToolMessage(Content("result", 0), <<0, t>>),
           AssistantMessage("ok", <<>>)>>
    ELSE <<UserMessage("p"), AssistantMessage("ok", <<>>)>>

RECURSIVE HistoryOf(_, _)
HistoryOf(kinds, t) ==
    IF t > Len(kinds) THEN <<>>
    ELSE HistoryTurn(kinds[t], t) \o HistoryOf(kinds, t + 1)

Histories ==
    {HistoryOf(kinds, 1) :
        kinds \in UNION {[1..k -> {"plain", "tools"}] : k \in 1..MaxTurns}}

InitReplay ==
    /\ channelMappings = <<>>
    /\ calls = [s \in HandlerSlots |-> IdleCall]
    /\ results = [f \in ResultFiles |-> NoFile]
    /\ lastReturned = IdleCall
    /\ tasks = [f \in Groups \X TaskNames |-> NoTask]
    /\ tools = [a \in Agents |-> IdleTool]
    /\ issued = 0
    /\ enqueued = [i \in RequestIds |-> NoRequest]
    /\ \E history \in Histories :
          sessions = [id \in SessionIds |->
                        IF id = GivenSessionId
                        THEN SessionFile(history) ELSE NoSession]
    /\ run = IdleRun
    /\ disk = EmptyDisk
    /\ exec = IdleExec
    /\ InitCalls

RunContinues == \E prompt \in Prompts : runLocalAgent(prompt, GivenSessionId)

NextReplay ==
    \/ RunContinues
    \/ Completion({Calling(<<"read_file">>)})
    \/ FinalCompletion

SpecReplay == InitReplay /\ [][NextReplay]_vars

\* The tool message at place p follows an assistant message whose tool_calls
\* have its tool_call_id.
FollowsItsCall(messages, p) ==
    \E q \in 1..(p - 1) :
       /\ messages[q].role = "assistant"
       /\ \E k \in DOMAIN messages[q].tool_calls :
             messages[q].tool_calls[k] = messages[p].tool_call_id

\* C34: in every message list given to callOllama, each tool message is
\* preceded by an assistant message whose tool_calls contain its
\* tool_call_id, also in the list built from a stored session that was cut
\* to its last 20 messages.
C34_ToolMessagesFollowTheirCall ==
    run.pc \in {"completion", "final"} =>
        \A p \in DOMAIN run.messages :
           run.messages[p].role = "tool" => FollowsItsCall(run.messages, p)

(***************************************************************************)
(* local-agent.ts: two invocations of runLocalAgent side by side for one   *)
(* group and one sessionId.  Each has its own messages; the session file   *)
(* is theirs in common.  An invocation loads before its first await and    *)
(* saves after its last completion, and the other one runs in between.     *)
(***************************************************************************)
\* input.prompt of either invocation, and what the model answers to it.
PromptOf(i) == IF i = "i1" THEN "p1" ELSE "p2"

AnswerTo(i) == IF i = "i1" THEN "a1" ELSE "a2"

\* How many rounds of tool calls an invocation goes through.
MaxRounds == 1

\* loadSession for the n-th invocation to load: the stored session under the
\* given id, or an empty one under a new id.
loadSessionBy(i, sessionId) ==
    IF sessionId # NoSessionId /\ sessions[sessionId].present
    THEN [messages |-> sessions[sessionId].messages, id |-> sessionId]
    ELSE [messages |-> <<>>,
          id |-> FreshSessionId(IF i = "i1" THEN 1 ELSE 2)]

\* runLocalAgent up to the first await: ebayApiInstance = null, the session
\* is loaded and the messages are built from its last MAX_HISTORY messages.
runLocalAgentLoads(i, sessionId) ==
    /\ running[i].pc = "idle"
    /\ LET loaded == loadSessionBy(i, sessionId)
       IN  running' = [running EXCEPT ![i] = [IdleInvocation EXCEPT
                         !.pc = "running", !.overwrote = Replaced(i),
                         !.sessionId = loaded.id,
                         !.messages = <<SystemMessage>>
                                        \o RecentHistory(loaded.messages)
                                        \o <<UserMessage(PromptOf(i))>>]]
    /\ ebayApiInstance' = Instance(0, i)
    /\ UNCHANGED <<mailboxVars, sessions, run, disk, exec, http, split>>

\* A completion that asks for a tool call, and the call: the assistant
\* message and the tool message are pushed.
toolRoundOf(i) ==
    /\ IsRunning(i)
    /\ running[i].rounds < MaxRounds
    /\ LET toolCall == PlainCall("read_file")
           id == <<running[i].rounds + 1, 1>>
       IN  running' = [running EXCEPT
              ![i].rounds = @ + 1,
              ![i].messages = @ \o
                  <<AssistantMessage("", <<[toolCall EXCEPT !.id = id]>>),
                    ToolMessage(Truncated(ToolResult(toolCall)), id)>>]
    /\ UNCHANGED <<mailboxVars, sessions, run, disk, exec, http,
                   ebayApiInstance, split>>

\* A completion without tool calls: the answer is pushed, the session file
\* is overwritten with messages.slice(1), the invocation returns.
answerOf(i) ==
    /\ IsRunning(i)
    /\ LET messages == Append(running[i].messages,
                              AssistantMessage(AnswerTo(i), <<>>))
       IN  /\ running' = [running EXCEPT ![i].pc = "done",
                                         ![i].messages = messages]
           /\ saveSession(running[i].sessionId, messages)
    /\ UNCHANGED <<mailboxVars, run, disk, exec, http, ebayApiInstance, split>>

\* callOllama throws: the catch returns status error, nothing is saved.
failureOf(i) ==
    /\ IsRunning(i)
    /\ running' = [running EXCEPT ![i].pc = "failed"]
    /\ UNCHANGED <<mailboxVars, sessions, run, disk, exec, http,
                   ebayApiInstance, split>>

NextShared ==
    \E i \in Parallel :
       \/ runLocalAgentLoads(i, GivenSessionId)
       \/ toolRoundOf(i)
       \/ answerOf(i)
       \/ failureOf(i)

SpecShared == InitSession /\ [][NextShared]_vars

\* The user message of invocation i and its answer.
NewMessagesOf(i) ==
    {UserMessage(PromptOf(i)), AssistantMessage(AnswerTo(i), <<>>)}

IsStored(sessionId, message) ==
    \E k \in DOMAIN sessions[sessionId].messages :
       sessions[sessionId].messages[k] = message

\* C40: when two invocations on the same group and sessionId have both
\* saved, the session file has the user message and the answer of both: the
\* later save keeps what the earlier one stored.
C40_BothInvocationsStored ==
    (/\ \A i \in Parallel : running[i].pc = "done"
     /\ running["i1"].sessionId = running["i2"].sessionId)
        => \A i \in Parallel : \A message \in NewMessagesOf(i) :
              IsStored(running[i].sessionId, message)

============================================================================
